---------------------------- MODULE Spec2Model ----------------------------
(***************************************************************************)
(* A model of the CIS Ubuntu 22.04 audit scripts (zarni99/ubuntu_audit).   *)
(*                                                                         *)
(* The audited machine is the environment: the kernel module table, the    *)
(* answers of `modprobe -n -v`, the lines `findmnt -n` prints, the files   *)
(* the scripts read and write, the installed packages, the systemd units   *)
(* and the answers of the remaining probes.  Each operation of the scripts *)
(* is an action that reads the environment through the probes, exactly as  *)
(* the Python code does (text in, substring tests and splits, boolean      *)
(* out), and records what it returned in `call`, the checks it ran in      *)
(* `executed`, the groups it selected in `selected`, the lines it printed  *)
(* in `printed` and what it emitted or handed back in `output`.            *)
(*                                                                         *)
(* Seven specifications share the variables: SpecModules (the kernel       *)
(* module checks on a machine), SpecProbes (the probe wrappers and the     *)
(* checks on arbitrary probe results), SpecMounts (the mount checks),      *)
(* SpecCtl (filter_modules, the section runners, run_audits and            *)
(* run_remediations), SpecRemediate (run_all_remediations, one remediation *)
(* function per step), SpecAudit (the two stand-alone audit scripts and    *)
(* the kernel module runners, run repeatedly on a machine that changes in  *)
(* between) and SpecRace (a kernel module check taken one probe at a time  *)
(* while the machine changes between the probes).                          *)
(***************************************************************************)
EXTENDS Integers, Sequences, FiniteSets, TLC

VARIABLES
    loaded,     \* the kernel module table: the set of loaded module names
    modprobe,   \* module name -> what `modprobe -n -v <module>` answers without the files below
    mounts,     \* mount point -> the line `findmnt -n <mount point>` prints
    cond,       \* the ids of the checks of sections 1.2 to 1.6 whose probes are satisfied
    probe,      \* one raw probe result: exit code, stdout, stderr, or a launch failure
    files,      \* the files that exist, path -> content
    unwritable, \* the paths open(path, 'w') is refused for
    busy,       \* the loaded modules rmmod cannot unload
    packages,   \* the installed packages, as dpkg knows them
    units,      \* systemd unit -> what systemctl is-active and is-enabled print
    call,       \* the last operation: its name, arguments and result
    executed,   \* the checks that operation ran, in order, with outcomes
    printed,    \* the lines that operation printed that matter here
    selected,   \* the groups filter_modules selected for that operation
    output,     \* what that operation handed back or emitted besides its verdict
    previous,   \* the operation completed before the last one, with what it ran and emitted
    registry    \* the list MODULES of cis_audit.py as the process holds it

vars ==
    <<loaded, modprobe, mounts, cond, probe, files, unwritable, busy, packages, units,
      call, executed, printed, selected, output, previous, registry>>

envvars == <<loaded, modprobe, mounts, cond, probe, files, unwritable, busy, packages, units>>

\* what an operation leaves behind besides call, executed, printed and selected
auxvars == <<output, previous, registry>>

(***************************************************************************)
(* Python string operations, computed on TLA+ strings.                     *)
(***************************************************************************)

\* Python `sub in s`
Contains(s, sub) ==
    \E i \in 1..(Len(s) - Len(sub) + 1) : SubSeq(s, i, i + Len(sub) - 1) = sub

\* Python `s.startswith(p)`
StartsWith(s, p) == Len(p) <= Len(s) /\ SubSeq(s, 1, Len(p)) = p

IsSpace(c) == c = " " \/ c = "\n"

\* Python `s.strip()`
RECURSIVE Strip(_)
Strip(s) ==
    IF s = "" THEN s
    ELSE IF IsSpace(SubSeq(s, 1, 1)) THEN Strip(SubSeq(s, 2, Len(s)))
    ELSE IF IsSpace(SubSeq(s, Len(s), Len(s))) THEN Strip(SubSeq(s, 1, Len(s) - 1))
    ELSE s

\* Python `s.split(sep)` for a one-character separator: empty fields are kept
RECURSIVE SplitOn(_, _)
SplitOn(s, sep) ==
    LET hits == {i \in 1..Len(s) : SubSeq(s, i, i) = sep}
    IN  IF hits = {} THEN <<s>>
        ELSE LET i == CHOOSE j \in hits : \A k \in hits : j <= k
             IN  <<SubSeq(s, 1, i - 1)>> \o SplitOn(SubSeq(s, i + 1, Len(s)), sep)

NonEmpty(f) == f # ""

\* s with every newline replaced by a blank
RECURSIVE Blanked(_)
Blanked(s) ==
    IF s = "" THEN s
    ELSE (IF SubSeq(s, 1, 1) = "\n" THEN " " ELSE SubSeq(s, 1, 1)) \o Blanked(SubSeq(s, 2, Len(s)))

\* Python `s.split()`: fields separated by runs of white space, no empty fields
Split(s) == SelectSeq(SplitOn(Blanked(s), " "), NonEmpty)

\* Python `sep.join(l)`
RECURSIVE Join(_, _)
Join(l, sep) ==
    IF l = <<>> THEN ""
    ELSE IF Len(l) = 1 THEN l[1]
    ELSE l[1] \o sep \o Join(Tail(l), sep)

\* membership in a Python list
InList(x, l) == \E i \in 1..Len(l) : l[i] = x

\* Python `all(...)` over a sequence of booleans
\* F applied to the value of v, which is computed once
Once(v, F(_)) == CHOOSE y \in {F(x) : x \in {v}} : TRUE

All(bs) == \A i \in 1..Len(bs) : bs[i]

(***************************************************************************)
(* The environment: kernel modules.                                        *)
(***************************************************************************)

\* the modules the section 1.1.1 checks name
SingleModules == {"cramfs", "freevxfs", "jffs2", "hfs", "hfsplus", "squashfs", "udf"}

FatModules == {"fat", "vfat", "msdos"}

AllModules == SingleModules \cup FatModules

\* the modules the model lets be loaded, and those whose modprobe answer
\* varies independently of the others
LoadableModules == {"cramfs", "hfsplus", "vfat"}

VariedModules == {"cramfs", "hfs"}

\* the raw result of a probe whose command was launched: exit code and text
Raw(rc, out, err) ==
    [launched |-> TRUE, returncode |-> rc, stdout |-> out, stderr |-> err, error |-> ""]

\* the raw result of a probe whose launch raised an exception with text e
LaunchFailed(e) ==
    [launched |-> FALSE, returncode |-> 0, stdout |-> "", stderr |-> "", error |-> e]

\* a handler that returns "", "", 1
_run_command_dropping_the_error(r) ==
    IF r.launched
    THEN [stdout |-> Strip(r.stdout), stderr |-> Strip(r.stderr), returncode |-> r.returncode]
    ELSE [stdout |-> "", stderr |-> "", returncode |-> 1]

\* _run_command of the modules: stripped stdout and stderr and the exit code,
\* or ("", str(e), 1) when launching raised
_run_command(r) ==
    IF r.launched
    THEN [stdout |-> Strip(r.stdout), stderr |-> Strip(r.stderr), returncode |-> r.returncode]
    ELSE [stdout |-> "", stderr |-> r.error, returncode |-> 1]

\* run_command of cis_filesystem_audit.py: the same without the stripping
run_command(r) ==
    IF r.launched
    THEN [returncode |-> r.returncode, stdout |-> r.stdout, stderr |-> r.stderr]
    ELSE [returncode |-> 1, stdout |-> "", stderr |-> r.error]

\* the tuples the two wrappers hand to their callers
_run_command_returns(r) ==
    LET res == _run_command(r) IN <<res.stdout, res.stderr, res.returncode>>

run_command_returns(r) ==
    LET res == run_command(r) IN <<res.returncode, res.stdout, res.stderr>>

\* what `modprobe -n -v m` can answer: the module would be inserted, its
\* install line is overridden by /bin/true or /bin/false, or it is unknown
ModprobeKinds == {"insmod", "install_true", "install_false", "not_found"}

\* the configuration file a remediation of fs_kernel_modules.py writes
ConfFile(m) == "/etc/modprobe.d/" \o m \o ".conf"

\* modprobe reads the files of /etc/modprobe.d: an install line for m in one
\* of them replaces the insertion of m by the command of the line
InstallOverridden(m) ==
    \E p \in DOMAIN files :
        /\ StartsWith(p, "/etc/modprobe.d/")
        /\ Contains(files[p], "install " \o m \o " /bin/true")

\* the raw result of `modprobe -n -v m`
ModprobeResult(m) ==
    IF InstallOverridden(m) THEN Raw(0, "install /bin/true \n", "")
    ELSE CASE modprobe[m] = "insmod" ->
                 Raw(0, "insmod /lib/modules/5.15/" \o m \o ".ko \n", "")
           [] modprobe[m] = "install_true" -> Raw(0, "install /bin/true \n", "")
           [] modprobe[m] = "install_false" -> Raw(0, "install /bin/false \n", "")
           [] OTHER ->
                 Raw(1, "", "modprobe: FATAL: Module " \o m
                             \o " not found in directory /lib/modules/5.15\n")

\* one line of lsmod output
LsmodLine(l) == l \o " 16384 0\n"

\* the lines of the module table, in some order
RECURSIVE LsmodLines(_)
LsmodLines(ms) ==
    IF ms = {} THEN ""
    ELSE LET l == CHOOSE x \in ms : TRUE IN LsmodLine(l) \o LsmodLines(ms \ {l})

\* the raw result of `lsmod | grep m` on the module table ld: the lines of
\* the table that contain m; grep exits 1 when it selects no line
LsmodGrepOn(ld, m) ==
    LET hit == {l \in ld : Contains(LsmodLine(l), m)}
    IN  Raw(IF hit = {} THEN 1 ELSE 0, LsmodLines(hit), "")

LsmodGrepResult(m) == LsmodGrepOn(loaded, m)

\* the raw result of `rmmod m` on the module table ld: the kernel refuses a
\* module that is in use and one that is not in the table
RmmodResult(ld, m) ==
    IF m \in ld /\ m \notin busy THEN Raw(0, "", "")
    ELSE IF m \in ld THEN Raw(1, "", "rmmod: ERROR: Module " \o m \o " is in use\n")
    ELSE Raw(1, "", "rmmod: ERROR: Module " \o m \o " is not currently loaded\n")

\* the module table after `rmmod m`
Unloaded(ld, m) == IF m \in ld /\ m \notin busy THEN ld \ {m} ELSE ld

\* an open for writing that no path is refused for
open_write_unrefused(fs, path, content) ==
    [raised |-> FALSE,
     files |-> [q \in DOMAIN fs \cup {path} |-> IF q = path THEN content ELSE fs[q]]]

\* with open(path, 'w') as f: f.write(content), on the files fs: the open
\* raises when the path is refused, otherwise the file holds the content
open_write(fs, path, content) ==
    IF path \in unwritable THEN [raised |-> TRUE, files |-> fs]
    ELSE [raised |-> FALSE,
          files |-> [q \in DOMAIN fs \cup {path} |-> IF q = path THEN content ELSE fs[q]]]

\* what is true of the machine, independently of any script
ModuleLoaded(m) == m \in loaded

ModuleAvailable(m) == modprobe[m] # "not_found"

ModuleDisabled(m) ==
    \/ Contains(ModprobeResult(m).stdout, "install /bin/true")
    \/ Contains(ModprobeResult(m).stdout, "install /bin/false")


(***************************************************************************)
(* The environment: the mount table.                                       *)
(***************************************************************************)

MountPoints == {"/tmp", "/dev/shm"}

Sources == {"/dev/sda1", "/dev/sda2", "tmpfs"}

Options == {"nodev", "nosuid", "noexec"}

\* the option lists a mount can carry; the first is the one of the /tmp
\* example, the last holds an option whose name merely contains "nodev"
OptionLists ==
    { <<"rw", "nosuid", "nodev", "relatime">>,
      <<"rw", "relatime">>,
      <<"rw", "nosuid", "nodev", "noexec", "relatime">>,
      <<"rw", "nodevx">> }

NotMounted == [mounted |-> FALSE, full |-> FALSE, source |-> "", fstype |-> "", options |-> <<>>]

\* a mount as the kernel holds it; `full` tells whether findmnt prints all
\* four columns (TARGET SOURCE FSTYPE OPTIONS) or stops after SOURCE
MountEntries ==
    {NotMounted}
    \cup [mounted : {TRUE}, full : {TRUE}, source : Sources, fstype : {"ext4"}, options : OptionLists]
    \cup [mounted : {TRUE}, full : {FALSE}, source : Sources, fstype : {"ext4"}, options : {<<>>}]

RootEntries ==
    [mounted : {TRUE}, full : {TRUE}, source : {"/dev/sda1", "tmpfs"}, fstype : {"ext4"},
     options : {<<"rw", "relatime">>}]

\* the mount at p; a directory the mount table does not list is not mounted
MountOf(p) == IF p \in DOMAIN mounts THEN mounts[p] ELSE NotMounted

\* the raw result of `findmnt -n p`: one line, or nothing and exit code 1
FindmntResult(p) ==
    LET e == MountOf(p)
    IN  IF ~e.mounted THEN Raw(1, "", "")
        ELSE Raw(0, IF e.full
                      THEN p \o " " \o e.source \o " " \o e.fstype \o " "
                             \o Join(e.options, ",") \o "\n"
                      ELSE p \o " " \o e.source \o "\n", "")

\* what is true of the machine, independently of any script
NonRootMount(p) == mounts[p].mounted /\ mounts[p].source # mounts["/"].source

OptionSet(p, o) == mounts[p].mounted /\ mounts[p].full /\ InList(o, mounts[p].options)

(***************************************************************************)
(* Section 1.1.1, modules/kernel/fs_modules.py.                            *)
(***************************************************************************)

\* _is_module_loaded, given the result of its `lsmod | grep` probe
fs_modules_is_module_loaded_on(r) == _run_command(r).stdout # ""

fs_modules_is_module_loaded(m) == fs_modules_is_module_loaded_on(LsmodGrepResult(m))

\* _is_module_available, given the result of its `modprobe -n -v` probe
fs_modules_is_module_available_on(r) ==
    LET stdout == _run_command(r).stdout
    IN  ~(Contains(stdout, "not found") \/ Contains(stdout, "No such file or directory"))

fs_modules_is_module_available(m) == fs_modules_is_module_available_on(ModprobeResult(m))

\* _is_module_disabled, given the result of its `modprobe -n -v` probe
fs_modules_is_module_disabled_on(r) ==
    LET stdout == _run_command(r).stdout
    IN  Contains(stdout, "install /bin/true") \/ Contains(stdout, "install /bin/false")

fs_modules_is_module_disabled(m) == fs_modules_is_module_disabled_on(ModprobeResult(m))

\* check_cramfs and its six siblings, given the results of the lsmod probe
\* and of the modprobe probe: the `passed` element of the result
fs_modules_check_on(rl, rm) ==
    IF fs_modules_is_module_loaded_on(rl) THEN FALSE
    ELSE IF ~fs_modules_is_module_available_on(rm) \/ fs_modules_is_module_disabled_on(rm)
         THEN TRUE
         ELSE FALSE

fs_modules_check_module(m) == fs_modules_check_on(LsmodGrepResult(m), ModprobeResult(m))

(***************************************************************************)
(* Section 1.1.1, fs_kernel_modules.py.                                    *)
(***************************************************************************)

\* _is_module_loaded, given the result of its `lsmod | grep` probe
fs_kernel_modules_is_module_loaded_on(r) == Len(_run_command(r).stdout) > 0

fs_kernel_modules_is_module_loaded(m) ==
    fs_kernel_modules_is_module_loaded_on(LsmodGrepResult(m))

\* _is_module_available, given the result of its `modprobe -n -v` probe
fs_kernel_modules_is_module_available_on(r) ==
    ~(Contains(_run_command(r).stdout, "not found") \/ Contains(_run_command(r).stderr, "not found"))

fs_kernel_modules_is_module_available(m) ==
    fs_kernel_modules_is_module_available_on(ModprobeResult(m))

\* _is_module_disabled, given the result of its `modprobe -n -v` probe
fs_kernel_modules_is_module_disabled_on(r) ==
    LET stdout == _run_command(r).stdout
    IN  Contains(stdout, "install /bin/true") \/ Contains(stdout, "install /bin/false")

fs_kernel_modules_is_module_disabled(m) ==
    fs_kernel_modules_is_module_disabled_on(ModprobeResult(m))

\* check_cramfs and its six siblings, given the results of the lsmod probe
\* and of the modprobe probe: the `passed` element of the result
fs_kernel_modules_check_on(rl, rm) ==
    IF fs_kernel_modules_is_module_loaded_on(rl) THEN FALSE
    ELSE IF ~fs_kernel_modules_is_module_disabled_on(rm)
            /\ fs_kernel_modules_is_module_available_on(rm)
         THEN FALSE
         ELSE TRUE

fs_kernel_modules_check_module(m) ==
    fs_kernel_modules_check_on(LsmodGrepResult(m), ModprobeResult(m))

(***************************************************************************)
(* Section 1.1.1, fs_kernel_modules.py: the remediations.  A remediation   *)
(* works on the module table and the files, and leaves the commands it     *)
(* issued and the files it opened in `effects`.                            *)
(***************************************************************************)

\* a file content that blacklists the module instead of overriding its install
create_blacklist_file(m) == "# Disable " \o m \o " module\nblacklist " \o m

\* _create_remediation_file: the content of the configuration file
fs_kernel_modules_create_remediation_file(m) ==
    "# Disable " \o m \o " module\ninstall " \o m \o " /bin/true"

\* one command issued or one file opened for writing, and whether it succeeded
Effect(k, t, ok) == [kind |-> k, target |-> t, ok |-> ok]

\* the machine as a remediation sees and changes it
Machine(ld, fs, es) == [loaded |-> ld, files |-> fs, effects |-> es]

\* the first half of a remediation: rmmod when `lsmod | grep m` printed a line
fs_kernel_modules_unload(m, st) ==
    IF fs_kernel_modules_is_module_loaded_on(LsmodGrepOn(st.loaded, m))
    THEN LET rc == _run_command(RmmodResult(st.loaded, m)).returncode
         IN  [loaded |-> Unloaded(st.loaded, m), files |-> st.files,
              effects |-> Append(st.effects, Effect("rmmod", m, rc = 0)),
              unloaded |-> rc = 0]
    ELSE [loaded |-> st.loaded, files |-> st.files, effects |-> st.effects,
          unloaded |-> TRUE]

\* the second half: the configuration file is written inside try/except
fs_kernel_modules_write_conf(m, st) ==
    LET w == open_write(st.files, ConfFile(m), fs_kernel_modules_create_remediation_file(m))
    IN  [loaded |-> st.loaded, files |-> w.files,
         effects |-> Append(st.effects, Effect("write", ConfFile(m), ~w.raised)),
         written |-> ~w.raised]

\* a remediation that goes on to the configuration file after a failed rmmod
remediate_module_writing_anyway(m, st) ==
    Once(fs_kernel_modules_unload(m, st), LAMBDA u :
        Once(fs_kernel_modules_write_conf(m, u), LAMBDA w :
            [loaded |-> w.loaded, files |-> w.files, effects |-> w.effects,
             result |-> u.unloaded /\ w.written]))

\* remediate_cramfs and its six siblings: a failed rmmod returns False
\* before the file is written
fs_kernel_modules_remediate_module(m, st) ==
    Once(fs_kernel_modules_unload(m, st), LAMBDA u :
        IF ~u.unloaded
        THEN [loaded |-> u.loaded, files |-> u.files, effects |-> u.effects, result |-> FALSE]
        ELSE Once(fs_kernel_modules_write_conf(m, u), LAMBDA w :
                 [loaded |-> w.loaded, files |-> w.files, effects |-> w.effects,
                  result |-> w.written]))

\* one pass of the loop of remediate_fat: a failed rmmod clears all_pass and
\* the file is written all the same
fs_kernel_modules_remediate_fat_module(m, st) ==
    Once(fs_kernel_modules_unload(m, st), LAMBDA u :
        Once(fs_kernel_modules_write_conf(m, u), LAMBDA w :
            [loaded |-> w.loaded, files |-> w.files, effects |-> w.effects,
             result |-> st.result /\ u.unloaded /\ w.written]))

\* remediate_fat: fat, vfat and msdos in turn
fs_kernel_modules_remediate_fat(st) ==
    Once(fs_kernel_modules_remediate_fat_module(
             "fat", [loaded |-> st.loaded, files |-> st.files, effects |-> st.effects,
                     result |-> TRUE]),
         LAMBDA a :
             Once(fs_kernel_modules_remediate_fat_module("vfat", a), LAMBDA b :
                 fs_kernel_modules_remediate_fat_module("msdos", b)))

\* the remediation_functions list of run_all_remediations: section and the
\* module of the function, "FAT" for remediate_fat
fs_kernel_modules_remediation_functions ==
    << <<"1.1.1.1", "cramfs">>, <<"1.1.1.2", "freevxfs">>, <<"1.1.1.3", "jffs2">>,
       <<"1.1.1.4", "hfs">>, <<"1.1.1.5", "hfsplus">>, <<"1.1.1.6", "squashfs">>,
       <<"1.1.1.7", "udf">>, <<"1.1.1.8", "FAT">> >>

\* remediate_func() for an entry of that list
fs_kernel_modules_remediate(entry, st) ==
    IF entry[2] = "FAT" THEN fs_kernel_modules_remediate_fat(st)
    ELSE fs_kernel_modules_remediate_module(entry[2], st)

(***************************************************************************)
(* Section 1.1.2, modules/filesystem/partitions.py.                        *)
(***************************************************************************)

\* _get_mount_info: (is_mounted, options, device)
partitions_get_mount_info(p) ==
    LET stdout == _run_command(FindmntResult(p)).stdout
        parts  == Split(stdout)
    IN  IF stdout = "" THEN [is_mounted |-> FALSE, options |-> <<>>, device |-> ""]
        ELSE IF Len(parts) >= 4
             THEN [is_mounted |-> TRUE, options |-> SplitOn(parts[4], ","), device |-> parts[2]]
             ELSE [is_mounted |-> TRUE, options |-> <<>>, device |-> ""]

\* _is_separate_partition without the comparison with the root device
is_separate_partition_mounted_only(p) == partitions_get_mount_info(p).is_mounted

\* _is_separate_partition: mounted, on a device that is not the root's
partitions_is_separate_partition(p) ==
    LET info   == partitions_get_mount_info(p)
        stdout == _run_command(FindmntResult("/")).stdout
        root_device == IF stdout # "" THEN Split(stdout)[2] ELSE ""
    IN  IF ~info.is_mounted THEN FALSE
        ELSE info.device # root_device /\ info.device # ""

\* _has_option testing the option as a substring of the option string
has_option_substring(p, o) ==
    LET info == partitions_get_mount_info(p)
    IN  IF ~info.is_mounted THEN FALSE ELSE Contains(Join(info.options, ","), o)

\* _has_option: mounted, and the option is an element of the option list
partitions_has_option(p, o) ==
    LET info == partitions_get_mount_info(p)
    IN  IF ~info.is_mounted THEN FALSE ELSE InList(o, info.options)

\* check_tmp_partition
partitions_check_tmp_partition == partitions_is_separate_partition("/tmp")

\* check_tmp_nodev, check_tmp_nosuid, check_tmp_noexec
partitions_check_tmp_option(o) ==
    IF ~partitions_is_separate_partition("/tmp") THEN FALSE
    ELSE IF partitions_has_option("/tmp", o) THEN TRUE
    ELSE FALSE

\* check_dev_shm_partition
partitions_check_dev_shm_partition == partitions_get_mount_info("/dev/shm").is_mounted

\* check_dev_shm_nodev, check_dev_shm_nosuid, check_dev_shm_noexec
partitions_check_dev_shm_option(o) ==
    IF ~partitions_get_mount_info("/dev/shm").is_mounted THEN FALSE
    ELSE IF partitions_has_option("/dev/shm", o) THEN TRUE
    ELSE FALSE

(***************************************************************************)
(* cis_filesystem_audit.py: the result of a check is [passed, raised];     *)
(* raised tells that the function left by an exception instead.            *)
(***************************************************************************)

Returned(b) == [passed |-> b, raised |-> FALSE]

Raised == [passed |-> FALSE, raised |-> TRUE]

\* check_mount_option, given the result of its findmnt probe
\* check_mount_option without its test of the exit code
check_mount_option_ignoring_exit(r, o) ==
    LET res == run_command(r)
    IN  IF Len(Split(res.stdout)) < 4 THEN Raised
        ELSE IF InList(o, SplitOn(Split(res.stdout)[4], ",")) THEN Returned(TRUE)
        ELSE Returned(FALSE)

\* check_mount_option, given the result of its findmnt probe
cis_filesystem_audit_check_mount_option_on(r, o) ==
    LET res == run_command(r)
    IN  IF res.returncode # 0 THEN Returned(FALSE)
        ELSE IF Len(Split(res.stdout)) < 4 THEN Raised
        ELSE IF InList(o, SplitOn(Split(res.stdout)[4], ",")) THEN Returned(TRUE)
        ELSE Returned(FALSE)

cis_filesystem_audit_check_mount_option(p, o) ==
    cis_filesystem_audit_check_mount_option_on(FindmntResult(p), o)

\* check_separate_partition, given the result of its findmnt probe
cis_filesystem_audit_check_separate_partition_on(r) ==
    IF run_command(r).returncode # 0 THEN Returned(FALSE) ELSE Returned(TRUE)

cis_filesystem_audit_check_separate_partition(p) ==
    cis_filesystem_audit_check_separate_partition_on(FindmntResult(p))

\* check_kernel_module_not_loaded, given the result of its lsmod probe
cis_filesystem_audit_check_kernel_module_not_loaded_on(r, m) ==
    LET res == run_command(r)
    IN  IF res.returncode # 0 THEN Returned(FALSE)
        ELSE IF Contains(res.stdout, m) THEN Returned(FALSE)
        ELSE Returned(TRUE)

\* the raw result of `grep -r <pattern> <path>` for a pattern that anchors
\* prefix at the start of a line: run_command passes the path as it is, no
\* shell expands it, and grep exits 2 on a path that does not exist
GrepResult(prefix, path) ==
    IF path \notin DOMAIN files
    THEN Raw(2, "", "grep: " \o path \o ": No such file or directory\n")
    ELSE LET hit == SelectSeq(SplitOn(files[path], "\n"), LAMBDA l : StartsWith(l, prefix))
         IN  IF hit = <<>> THEN Raw(1, "", "") ELSE Raw(0, Join(hit, "\n") \o "\n", "")

\* config_files of check_kernel_module_disabled
config_files == <<"/etc/modprobe.d/*.conf", "/etc/modprobe.conf", "/lib/modprobe.d/*.conf">>

\* check_kernel_module_disabled on the machine: one grep per entry of
\* config_files
GrepResults(m) ==
    [i \in DOMAIN config_files |-> GrepResult("install " \o m \o " /bin/true", config_files[i])]

\* the message check_kernel_module_not_loaded returns with its verdict
cis_filesystem_audit_check_kernel_module_not_loaded_message_on(r, m) ==
    LET res == run_command(r)
    IN  IF res.returncode # 0 THEN "Error checking if " \o m \o " is loaded: " \o res.stderr
        ELSE IF Contains(res.stdout, m) THEN m \o " kernel module is loaded"
        ELSE m \o " kernel module is not loaded"

\* the message check_mount_option returns; none when it raised
cis_filesystem_audit_check_mount_option_message_on(r, p, o) ==
    LET res == run_command(r)
    IN  IF res.returncode # 0 THEN "Mount point " \o p \o " not found"
        ELSE IF Len(Split(res.stdout)) < 4 THEN ""
        ELSE IF InList(o, SplitOn(Split(res.stdout)[4], ","))
             THEN "Mount option '" \o o \o "' is set on " \o p
        ELSE "Mount option '" \o o \o "' is not set on " \o p

\* the message check_separate_partition returns
cis_filesystem_audit_check_separate_partition_message_on(r, p) ==
    IF run_command(r).returncode # 0 THEN p \o " is not on a separate partition"
    ELSE p \o " is on a separate partition"

\* check_kernel_module_disabled, given the results of its three grep probes
\* in the order of config_files: the first that exits 0 with output decides,
\* the others are passed over whatever they exited with
cis_filesystem_audit_check_kernel_module_disabled_on(rs, m) ==
    IF \E i \in DOMAIN rs :
          run_command(rs[i]).returncode = 0 /\ Strip(run_command(rs[i]).stdout) # ""
    THEN [passed |-> TRUE, raised |-> FALSE,
          message |-> m \o " kernel module is disabled in modprobe config"]
    ELSE [passed |-> FALSE, raised |-> FALSE,
          message |-> m \o " kernel module is not disabled in modprobe config"]

(***************************************************************************)
(* cis_services_audit.py.                                                  *)
(***************************************************************************)

\* check_service_not_installed, given the result of its `dpkg -s` probe; the
\* function calls subprocess.run itself, inside try/except
cis_services_audit_check_service_not_installed_on(r) ==
    IF ~r.launched THEN Returned(FALSE)
    ELSE IF Contains(r.stdout, "Status: install ok installed") THEN Returned(FALSE)
    ELSE Returned(TRUE)

(***************************************************************************)
(* cis_audit.py: the registry and filter_modules.                          *)
(***************************************************************************)

Submodule(n, t) == [name |-> n, title |-> t]

Group(n, subs) == [name |-> n, submodules |-> subs]

\* MODULES: the groups in registry order, each with its submodules
MODULES ==
    << Group("kernel", <<Submodule("fs_modules", "1.1.1 Filesystem Kernel Modules")>>),
       Group("filesystem",
             <<Submodule("partitions", "1.1.2 Filesystem Partition Configuration")>>),
       Group("package_management",
             <<Submodule("repositories", "1.2.1 Configure Package Repositories"),
               Submodule("updates", "1.2.2 Configure Package Updates")>>),
       Group("access_control", <<Submodule("apparmor", "1.3.1 Configure AppArmor")>>),
       Group("bootloader", <<Submodule("configuration", "1.4 Configure Bootloader")>>),
       Group("process_hardening",
             <<Submodule("process_restrictions",
                         "1.5 Configure Additional Process Hardening")>>),
       Group("command_line_warning",
             <<Submodule("warning_banners",
                         "1.6 Configure Command Line Warning Banners")>>) >>

\* the submodules of a group named target
RECURSIVE SubmodulesNamed(_, _)
SubmodulesNamed(subs, target) ==
    IF subs = <<>> THEN <<>>
    ELSE (IF Head(subs).name = target THEN <<Head(subs)>> ELSE <<>>)
            \o SubmodulesNamed(Tail(subs), target)

\* filter_modules whose submodule match keeps the whole group
RECURSIVE filter_groups_whole(_, _)
filter_groups_whole(groups, target) ==
    IF groups = <<>> THEN <<>>
    ELSE LET g == Head(groups)
             rest == filter_groups_whole(Tail(groups), target)
         IN  IF g.name = target THEN <<g>> \o rest
             ELSE IF SubmodulesNamed(g.submodules, target) # <<>> THEN <<g>> \o rest
             ELSE rest

\* the loop of filter_modules over the module groups
RECURSIVE filter_groups(_, _)
filter_groups(groups, target) ==
    IF groups = <<>> THEN <<>>
    ELSE LET g == Head(groups)
             filtered_submodules == SubmodulesNamed(g.submodules, target)
             rest == filter_groups(Tail(groups), target)
         IN  IF g.name = target THEN <<g>> \o rest
             ELSE IF filtered_submodules # <<>>
                  THEN <<[g EXCEPT !.submodules = filtered_submodules]>> \o rest
             ELSE rest

\* filter_modules that selects everything when nothing matches
filter_modules_default_all(target_module) ==
    IF target_module = "all" \/ filter_groups(registry, target_module) = <<>> THEN registry
    ELSE filter_groups(registry, target_module)

\* filter_modules
filter_modules(target_module) ==
    IF target_module = "all" THEN registry ELSE filter_groups(registry, target_module)

\* filtered_module_group = module_group, without the copy: the assignment of
\* the filtered submodules changes the group in the list
assigned_in_place(module_group, filtered_submodules) ==
    [module_group EXCEPT !.submodules = filtered_submodules]

\* filtered_module_group = module_group.copy(), then
\* filtered_module_group["submodules"] = filtered_submodules: the assignment
\* changes the copy, the group in the list is what it was
assigned_to_copy(module_group, filtered_submodules) == module_group

\* the list after filter_modules ran: 'all' and a group name hand out the
\* list and the group themselves and write nothing; a submodule name writes
\* to what filtered_module_group refers to
after_filter_modules(target_module) ==
    IF target_module = "all" THEN registry
    ELSE [i \in DOMAIN registry |->
            LET module_group == registry[i]
                filtered_submodules == SubmodulesNamed(module_group.submodules, target_module)
            IN  IF module_group.name = target_module THEN module_group
                ELSE IF filtered_submodules # <<>>
                     THEN assigned_to_copy(module_group, filtered_submodules)
                ELSE module_group]

\* the lines run_audits and run_remediations print for the registry
RECURSIVE AvailableModules(_)
AvailableModules(groups) ==
    IF groups = <<>> THEN <<>>
    ELSE LET g == Head(groups)
         IN  <<"  - " \o g.name \o " (group)">>
                \o [i \in 1..Len(g.submodules) |-> "    - " \o g.submodules[i].name]
                \o AvailableModules(Tail(groups))

\* the not-found report without any line
not_found_report_silent(target_module) == <<>>

\* what run_audits and run_remediations print when filter_modules selects
\* nothing
not_found_report(target_module) ==
    <<"Error: Module '" \o target_module \o "' not found.", "Available modules:">>
        \o AvailableModules(MODULES)

(***************************************************************************)
(* The section runners.  A check result is the tuple the check returns,    *)
(* (passed, "<id> <description>", status), as a record; raised tells that   *)
(* the check left by an exception instead of returning.                    *)
(***************************************************************************)

Outcome(d, b) ==
    [kind |-> "check", desc |-> d, passed |-> b, status |-> b, raised |-> FALSE]

Exception(d) ==
    [kind |-> "check", desc |-> d, passed |-> FALSE, status |-> FALSE, raised |-> TRUE]

Remediation(d, b) ==
    [kind |-> "remediation", desc |-> d, passed |-> b, status |-> b, raised |-> FALSE]

\* a check of sections 1.2 to 1.6: it passes when its probes are satisfied
CheckPasses(id) == id \in cond

\* the calls of a runner up to the first that raises, that one included
RECURSIVE UpToRaise(_)
UpToRaise(rs) ==
    IF rs = <<>> THEN <<>>
    ELSE IF Head(rs).raised THEN <<Head(rs)>>
    ELSE <<Head(rs)>> \o UpToRaise(Tail(rs))

AnyRaised(rs) == \E i \in 1..Len(rs) : rs[i].raised

\* a verdict that is True as soon as one check passed
any_passed(rs) == \E i \in 1..Len(rs) : rs[i].passed

\* all(result[0] for result in results)
all_passed(rs) == \A i \in 1..Len(rs) : rs[i].passed

\* all(result[2] for result in results)
all_status(rs) == \A i \in 1..Len(rs) : rs[i].status

\* check_fat of modules/kernel/fs_modules.py: fat and vfat
fs_modules_check_fat == fs_modules_check_module("fat") /\ fs_modules_check_module("vfat")

\* check_fat of fs_kernel_modules.py: fat, vfat and msdos
fs_kernel_modules_check_fat ==
    \A m \in {"fat", "vfat", "msdos"} :
        /\ ~fs_kernel_modules_is_module_loaded(m)
        /\ ~(~fs_kernel_modules_is_module_disabled(m) /\ fs_kernel_modules_is_module_available(m))

KernelDesc(id, m) == id \o " Ensure " \o m \o " kernel module is not available"

\* the results list of modules/kernel/fs_modules.run_all_audits
fs_modules_results ==
    << Outcome(KernelDesc("1.1.1.1", "cramfs"), fs_modules_check_module("cramfs")),
       Outcome(KernelDesc("1.1.1.2", "freevxfs"), fs_modules_check_module("freevxfs")),
       Outcome(KernelDesc("1.1.1.3", "jffs2"), fs_modules_check_module("jffs2")),
       Outcome(KernelDesc("1.1.1.4", "hfs"), fs_modules_check_module("hfs")),
       Outcome(KernelDesc("1.1.1.5", "hfsplus"), fs_modules_check_module("hfsplus")),
       Outcome(KernelDesc("1.1.1.6", "squashfs"), fs_modules_check_module("squashfs")),
       Outcome(KernelDesc("1.1.1.7", "udf"), fs_modules_check_module("udf")),
       Outcome(KernelDesc("1.1.1.8", "FAT"), fs_modules_check_fat) >>

\* the results list of fs_kernel_modules.run_all_audits
fs_kernel_modules_results ==
    << Outcome(KernelDesc("1.1.1.1", "cramfs"), fs_kernel_modules_check_module("cramfs")),
       Outcome(KernelDesc("1.1.1.2", "freevxfs"), fs_kernel_modules_check_module("freevxfs")),
       Outcome(KernelDesc("1.1.1.3", "jffs2"), fs_kernel_modules_check_module("jffs2")),
       Outcome(KernelDesc("1.1.1.4", "hfs"), fs_kernel_modules_check_module("hfs")),
       Outcome(KernelDesc("1.1.1.5", "hfsplus"), fs_kernel_modules_check_module("hfsplus")),
       Outcome(KernelDesc("1.1.1.6", "squashfs"), fs_kernel_modules_check_module("squashfs")),
       Outcome(KernelDesc("1.1.1.7", "udf"), fs_kernel_modules_check_module("udf")),
       Outcome(KernelDesc("1.1.1.8", "FAT"), fs_kernel_modules_check_fat) >>

\* the results list of modules/filesystem/partitions.run_all_audits
partitions_results ==
    << Outcome("1.1.2.1 Ensure /tmp is a separate partition", partitions_check_tmp_partition),
       Outcome("1.1.2.2 Ensure nodev option set on /tmp partition",
               partitions_check_tmp_option("nodev")),
       Outcome("1.1.2.3 Ensure nosuid option set on /tmp partition",
               partitions_check_tmp_option("nosuid")),
       Outcome("1.1.2.4 Ensure noexec option set on /tmp partition",
               partitions_check_tmp_option("noexec")),
       Outcome("1.1.2.5 Ensure /dev/shm is configured", partitions_check_dev_shm_partition),
       Outcome("1.1.2.6 Ensure nodev option set on /dev/shm partition",
               partitions_check_dev_shm_option("nodev")),
       Outcome("1.1.2.7 Ensure nosuid option set on /dev/shm partition",
               partitions_check_dev_shm_option("nosuid")),
       Outcome("1.1.2.8 Ensure noexec option set on /dev/shm partition",
               partitions_check_dev_shm_option("noexec")) >>

repositories_results ==
    << Outcome("1.2.1.1 Ensure GPG keys are configured (Manual)", CheckPasses("1.2.1.1")),
       Outcome("1.2.1.2 Ensure package manager repositories are configured (Manual)",
               CheckPasses("1.2.1.2")) >>

updates_results ==
    << Outcome("1.2.2.1 Ensure updates, patches, and additional security software are installed (Manual)",
               CheckPasses("1.2.2.1")) >>

apparmor_results ==
    << Outcome("1.3.1.1 Ensure AppArmor is installed (Automated)", CheckPasses("1.3.1.1")),
       Outcome("1.3.1.2 Ensure AppArmor is enabled in the bootloader configuration (Automated)",
               CheckPasses("1.3.1.2")),
       Outcome("1.3.1.3 Ensure all AppArmor Profiles are in enforce or complain mode (Automated)",
               CheckPasses("1.3.1.3")) >>

configuration_results ==
    << Outcome("1.4.1 Ensure bootloader password is set (Automated)", CheckPasses("1.4.1")),
       Outcome("1.4.2 Ensure access to bootloader config is configured (Automated)",
               CheckPasses("1.4.2")) >>

process_restrictions_results ==
    << Outcome("1.5.1 Ensure address space layout randomization (ASLR) is enabled (Automated)",
               CheckPasses("1.5.1")),
       Outcome("1.5.2 Ensure ptrace scope is restricted (Automated)", CheckPasses("1.5.2")),
       Outcome("1.5.3 Ensure core dumps are restricted (Automated)", CheckPasses("1.5.3")),
       Outcome("1.5.4 Ensure prelink is not installed (Automated)", CheckPasses("1.5.4")),
       Outcome("1.5.5 Ensure Automatic Error Reporting is not enabled (Automated)",
               CheckPasses("1.5.5")) >>

\* check_message_of_the_day: its first statement unpacks the three values
\* _run_command returns into two names, which raises ValueError
warning_banners_check_message_of_the_day ==
    Exception("1.6.1 Ensure message of the day is configured properly (Automated)")

warning_banners_results ==
    << warning_banners_check_message_of_the_day,
       Outcome("1.6.2 Ensure local login warning banner is configured properly (Automated)",
               CheckPasses("1.6.2")),
       Outcome("1.6.3 Ensure remote login warning banner is configured properly (Automated)",
               CheckPasses("1.6.3")),
       Outcome("1.6.4 Ensure access to the su command is restricted (Automated)",
               CheckPasses("1.6.4")) >>

\* the checks a runner calls, by module name
ResultsOf(module) ==
    CASE module = "fs_kernel_modules" -> fs_kernel_modules_results
      [] module = "fs_modules" -> fs_modules_results
      [] module = "partitions" -> partitions_results
      [] module = "repositories" -> repositories_results
      [] module = "updates" -> updates_results
      [] module = "apparmor" -> apparmor_results
      [] module = "configuration" -> configuration_results
      [] module = "process_restrictions" -> process_restrictions_results
      [] OTHER -> warning_banners_results

\* the list run_all_audits(return_results=True) hands back: the kernel and
\* partition runners pair description and status, the others hand back the
\* tuples of the checks as they are
DetailedResults(module, rs) ==
    IF module \in {"fs_modules", "partitions"}
    THEN [i \in 1..Len(rs) |-> <<rs[i].desc, rs[i].status>>]
    ELSE [i \in 1..Len(rs) |-> <<rs[i].passed, rs[i].desc, rs[i].status>>]

\* the verdict of run_all_audits(): fs_kernel_modules compares the number of
\* passed checks with the number of checks, the kernel and partition runners
\* take all(result[0]), the others all(result[2])
Verdict(module, rs) ==
    IF module = "fs_kernel_modules"
    THEN Cardinality({i \in 1..Len(rs) : rs[i].passed}) = Len(rs)
    ELSE IF module \in {"fs_modules", "partitions"} THEN all_passed(rs)
    ELSE all_status(rs)

\* run_all_audits of a module: the checks it ran, whether one of them
\* raised, and otherwise what it returned
run_all_audits(module, return_results) ==
    Once(ResultsOf(module), LAMBDA called :
        Once(UpToRaise(called), LAMBDA rs :
            [executed |-> rs,
             raised   |-> AnyRaised(rs),
             passed   |-> ~AnyRaised(rs) /\ Verdict(module, rs),
             results  |-> IF AnyRaised(rs) \/ ~return_results THEN <<>>
                          ELSE DetailedResults(module, rs)]))

(***************************************************************************)
(* cis_audit.py: run_audits and run_remediations.                          *)
(***************************************************************************)

\* the section id run_audits derives from a submodule's title; "" when no
\* prefix matches
section_id(title) ==
    IF StartsWith(title, "1.1.1") THEN "1.1.1"
    ELSE IF StartsWith(title, "1.1.2") THEN "1.1.2"
    ELSE IF StartsWith(title, "1.2.1") THEN "1.2.1"
    ELSE IF StartsWith(title, "1.2.2") THEN "1.2.2"
    ELSE IF StartsWith(title, "1.3.1") THEN "1.3.1"
    ELSE IF StartsWith(title, "1.4") THEN "1.4"
    ELSE IF StartsWith(title, "1.5") THEN "1.5"
    ELSE IF StartsWith(title, "1.6") THEN "1.6"
    ELSE ""

\* next((r[1] for r in results if id in r[0]), False)
RECURSIVE NextStatus(_, _)
NextStatus(results, id) ==
    IF results = <<>> THEN FALSE
    ELSE IF Contains(Head(results)[1], id) THEN Head(results)[2]
    ELSE NextStatus(Tail(results), id)

KernelIds ==
    <<"1.1.1.1", "1.1.1.2", "1.1.1.3", "1.1.1.4", "1.1.1.5", "1.1.1.6", "1.1.1.7", "1.1.1.8">>

PartitionIds ==
    <<"1.1.2.1", "1.1.2.2", "1.1.2.3", "1.1.2.4", "1.1.2.5", "1.1.2.6", "1.1.2.7", "1.1.2.8">>

\* the local variable module_results of run_audits: unbound until a
\* section 1.1.1 or 1.1.2 assigns it, then the values of the dictionary
Unbound == [bound |-> FALSE, values |-> <<>>]

ModuleResults(results, ids) ==
    [bound |-> TRUE, values |-> [i \in 1..Len(ids) |-> NextStatus(results, ids[i])]]

\* the submodules of the selected groups, in the order the loops visit them
RECURSIVE SubmodulesOf(_)
SubmodulesOf(groups) ==
    IF groups = <<>> THEN <<>> ELSE Head(groups).submodules \o SubmodulesOf(Tail(groups))

\* the streams sys.stdout is bound to: the one installed before the call and
\* the io.StringIO() that captures a section's technical output
OriginalStdout == "original_stdout"

StringIO == "io.StringIO()"

\* the assignments to sys.stdout around run_all_audits(return_results=True):
\* the one before the call, and the one after it when the call returns
captured(assigned, r) ==
    IF r.raised THEN Append(assigned, StringIO)
    ELSE assigned \o <<StringIO, OriginalStdout>>

\* one pass of the loop body of run_audits for a submodule, from the local
\* state st and the outcome r of the submodule's runner
audit_step(sid, technical, r, st) ==
    LET ran == st.executed \o r.executed
        module_results ==
            IF sid = "1.1.1" THEN ModuleResults(r.results, KernelIds)
            ELSE IF sid = "1.1.2" THEN ModuleResults(r.results, PartitionIds)
            ELSE st.module_results
        assigned == IF technical THEN st.assigned ELSE captured(st.assigned, r)
    IN  IF r.raised THEN [st EXCEPT !.raised = TRUE, !.executed = ran, !.assigned = assigned]
        ELSE IF technical
        THEN [st EXCEPT !.executed = ran, !.all_passed = st.all_passed /\ r.passed]
        ELSE IF ~module_results.bound
        THEN [st EXCEPT !.raised = TRUE, !.executed = ran, !.assigned = assigned]
        ELSE [st EXCEPT !.executed = ran,
                        !.assigned = assigned,
                        !.module_results = module_results,
                        !.all_passed = st.all_passed /\ All(module_results.values)]

\* the two nested loops of run_audits, from the local state st on; they stop
\* at the first exception
RECURSIVE audit_loop(_, _, _)
audit_loop(subs, user_friendly, st) ==
    IF subs = <<>> \/ st.raised THEN st
    ELSE LET sid == section_id(Head(subs).title)
             technical == ~user_friendly \/ sid = ""
         IN  Once(run_all_audits(Head(subs).name, ~technical), LAMBDA r :
                 Once(audit_step(sid, technical, r, st), LAMBDA next :
                     audit_loop(Tail(subs), user_friendly, next)))

\* run_audits: what it selected, ran and printed, whether it raised, and
\* otherwise the boolean it returned
run_audits(target_module, user_friendly) ==
    Once(filter_modules(target_module), LAMBDA filtered_modules :
        IF filtered_modules = <<>>
        THEN [selected |-> <<>>, executed |-> <<>>, raised |-> FALSE, passed |-> FALSE,
              assigned |-> <<>>, printed |-> not_found_report(target_module)]
        ELSE Once(audit_loop(SubmodulesOf(filtered_modules), user_friendly,
                             [all_passed |-> TRUE, raised |-> FALSE, executed |-> <<>>,
                              assigned |-> <<>>, module_results |-> Unbound]),
                  LAMBDA st :
                      [selected |-> filtered_modules, executed |-> st.executed,
                       raised |-> st.raised, passed |-> ~st.raised /\ st.all_passed,
                       assigned |-> st.assigned, printed |-> <<>>]))

\* the remediation functions a run_all_remediations calls, each returning
\* True after printing manual steps; the partition runner calls none
RemediationsOf(module) ==
    CASE module = "fs_modules" ->
            << Remediation("remediate_cramfs", TRUE), Remediation("remediate_freevxfs", TRUE),
               Remediation("remediate_jffs2", TRUE), Remediation("remediate_hfs", TRUE),
               Remediation("remediate_hfsplus", TRUE), Remediation("remediate_squashfs", TRUE),
               Remediation("remediate_udf", TRUE), Remediation("remediate_fat", TRUE) >>
      [] module = "partitions" -> <<>>
      [] module = "repositories" ->
            << Remediation("remediate_gpg_keys", TRUE),
               Remediation("remediate_package_manager_repositories", TRUE) >>
      [] module = "updates" -> << Remediation("remediate_updates_installed", TRUE) >>
      [] module = "apparmor" ->
            << Remediation("remediate_apparmor_installed", TRUE),
               Remediation("remediate_apparmor_enabled_bootloader", TRUE),
               Remediation("remediate_apparmor_profiles_enforcing", TRUE) >>
      [] module = "configuration" ->
            << Remediation("remediate_bootloader_password", TRUE),
               Remediation("remediate_bootloader_config_permissions", TRUE) >>
      [] module = "process_restrictions" ->
            << Remediation("remediate_address_space_layout_randomization", TRUE),
               Remediation("remediate_ptrace_scope", TRUE),
               Remediation("remediate_core_dumps_restricted", TRUE),
               Remediation("remediate_prelink_not_installed", TRUE),
               Remediation("remediate_automatic_error_reporting", TRUE) >>
      [] OTHER ->
            << Remediation("remediate_message_of_the_day", TRUE),
               Remediation("remediate_local_login_warning", TRUE),
               Remediation("remediate_remote_login_warning", TRUE),
               Remediation("remediate_access_to_etc_issue", TRUE) >>

\* run_all_remediations of a module of the registry: the kernel runner ends
\* by running its audits again and returns their verdict, the partition
\* runner returns False, the others return whether every remediation did
run_all_remediations(module) ==
    IF module = "fs_modules"
    THEN Once(run_all_audits(module, FALSE), LAMBDA verification :
             [executed |-> RemediationsOf(module) \o verification.executed,
              raised |-> verification.raised, passed |-> verification.passed])
    ELSE IF module = "partitions"
    THEN [executed |-> <<>>, raised |-> FALSE, passed |-> FALSE]
    ELSE [executed |-> RemediationsOf(module), raised |-> FALSE,
          passed |-> all_passed(RemediationsOf(module))]

\* a call of a runner's run_all_remediations and the value it returned
Invocation(module, value) == [runner |-> module, returned |-> value]

\* the value run_remediations returns after its loops, as if it were the
\* conjunction of what the runners returned
run_remediations_return_conjunction(invoked) ==
    \A i \in 1..Len(invoked) : invoked[i].returned

\* `return True` at the end of run_remediations
run_remediations_return(invoked) == TRUE

\* the two nested loops of run_remediations; the values the runners return
\* are dropped
RECURSIVE remediation_loop(_, _)
remediation_loop(subs, st) ==
    IF subs = <<>> \/ st.raised THEN st
    ELSE Once(run_all_remediations(Head(subs).name), LAMBDA r :
             Once([raised |-> r.raised, executed |-> st.executed \o r.executed,
                   invoked |-> IF r.raised THEN st.invoked
                               ELSE Append(st.invoked,
                                           Invocation(Head(subs).name, r.passed))],
                  LAMBDA next : remediation_loop(Tail(subs), next)))

\* run_remediations: both output modes call the same runners
run_remediations(target_module, user_friendly) ==
    Once(filter_modules(target_module), LAMBDA filtered_modules :
        IF filtered_modules = <<>>
        THEN [selected |-> <<>>, executed |-> <<>>, raised |-> FALSE, passed |-> FALSE,
              invoked |-> <<>>, printed |-> not_found_report(target_module)]
        ELSE Once(remediation_loop(SubmodulesOf(filtered_modules),
                                   [raised |-> FALSE, executed |-> <<>>, invoked |-> <<>>]),
                  LAMBDA st :
                      [selected |-> filtered_modules, executed |-> st.executed,
                       raised |-> st.raised, invoked |-> st.invoked,
                       passed |-> ~st.raised /\ run_remediations_return(st.invoked),
                       printed |-> <<>>]))

(***************************************************************************)
(* Operations and specifications.                                          *)
(***************************************************************************)

NoCall == [op |-> "none", target |-> "", mode |-> "", passed |-> FALSE, raised |-> FALSE]

NoProbe == Raw(0, "", "")

\* no file of those the scripts read or write exists
NoFiles == [p \in {} |-> ""]

\* the time synchronisation units, neither running nor enabled
Units == {"chronyd", "systemd-timesyncd"}

NoUnits == [u \in Units |-> [active |-> "inactive", enabled |-> "disabled"]]

\* a machine without configuration files, refused writes, busy modules,
\* audited packages or time synchronisation
DefaultMachine ==
    /\ files = NoFiles
    /\ unwritable = {}
    /\ busy = {}
    /\ packages = {}
    /\ units = NoUnits

NoOutput == <<>>

NoRun == [op |-> "none", target |-> "", mode |-> "", passed |-> FALSE, raised |-> FALSE,
          executed |-> <<>>, output |-> NoOutput, machine |-> <<>>]

\* nothing has been emitted and no operation has completed
NoAux == output = NoOutput /\ previous = NoRun /\ registry = MODULES

DefaultRoot ==
    [mounted |-> TRUE, full |-> TRUE, source |-> "/dev/sda1", fstype |-> "ext4",
     options |-> <<"rw", "relatime">>]

DefaultMounts == [p \in MountPoints \cup {"/"} |-> IF p = "/" THEN DefaultRoot ELSE NotMounted]

\* the kernel module environments: any subset of LoadableModules loaded, an
\* independent modprobe answer for each of VariedModules, one for the others
InitModulesEnv ==
    /\ loaded \in SUBSET LoadableModules
    /\ \E a \in [VariedModules -> ModprobeKinds], d \in ModprobeKinds :
          modprobe = [m \in AllModules |-> IF m \in VariedModules THEN a[m] ELSE d]

InitModules ==
    /\ InitModulesEnv
    /\ mounts = DefaultMounts
    /\ cond = {}
    /\ probe = NoProbe
    /\ call = NoCall
    /\ executed = <<>>
    /\ printed = <<>>
    /\ selected = <<>>
    /\ DefaultMachine
    /\ NoAux

\* one single-module check of modules/kernel/fs_modules.py
FsModulesCheck(m) ==
    /\ call' = [NoCall EXCEPT !.op = "fs_modules.check", !.target = m,
                              !.passed = fs_modules_check_module(m)]
    /\ UNCHANGED <<envvars, auxvars, executed, printed, selected>>

\* one single-module check of fs_kernel_modules.py
FsKernelModulesCheck(m) ==
    /\ call' = [NoCall EXCEPT !.op = "fs_kernel_modules.check", !.target = m,
                              !.passed = fs_kernel_modules_check_module(m)]
    /\ UNCHANGED <<envvars, auxvars, executed, printed, selected>>

\* check_fat of modules/kernel/fs_modules.py
FsModulesCheckFat ==
    /\ call' = [NoCall EXCEPT !.op = "fs_modules.check_fat", !.target = "FAT",
                              !.passed = fs_modules_check_fat]
    /\ UNCHANGED <<envvars, auxvars, executed, printed, selected>>

\* check_fat of fs_kernel_modules.py
FsKernelModulesCheckFat ==
    /\ call' = [NoCall EXCEPT !.op = "fs_kernel_modules.check_fat", !.target = "FAT",
                              !.passed = fs_kernel_modules_check_fat]
    /\ UNCHANGED <<envvars, auxvars, executed, printed, selected>>

NextModules ==
    \/ \E m \in SingleModules : FsModulesCheck(m)
    \/ \E m \in SingleModules : FsKernelModulesCheck(m)
    \/ FsModulesCheckFat
    \/ FsKernelModulesCheckFat

SpecModules == InitModules /\ [][NextModules]_vars

\* C5: in both implementations a single-module check passes if and only if
\* the module is not loaded and it is either not available or disabled (its
\* dry-run output shows install /bin/true or install /bin/false).
C5_ModuleCheckIff ==
    call.op \in {"fs_modules.check", "fs_kernel_modules.check"} =>
        (call.passed <=>
            /\ ~ModuleLoaded(call.target)
            /\ (~ModuleAvailable(call.target) \/ ModuleDisabled(call.target)))

(***************************************************************************)
(* The checks under arbitrary probe results.                               *)
(***************************************************************************)

ProbeCodes == {0, 1, 127}

ProbeStdouts ==
    {"", "Status: install ok installed\n", "cramfs 16384 0\n", "install cramfs /bin/true\n",
     "/tmp tmpfs tmpfs rw,nosuid,nodev\n", "/tmp tmpfs\n"}

ProbeStderrs == {"", "sh: 1: lsmod: not found\n"}

\* what a probe can hand back: any exit code with any text, or a failure to
\* launch the command at all
ProbeResults ==
    {Raw(rc, out, err) : rc \in ProbeCodes, out \in ProbeStdouts, err \in ProbeStderrs}
        \cup {LaunchFailed("[Errno 2] No such file or directory")}

ProbeFailed(r) == ~r.launched \/ r.returncode # 0

ProbedModules == {"cramfs", "udf"}

InitProbes ==
    /\ probe \in ProbeResults
    /\ \E d \in ModprobeKinds : modprobe = [m \in AllModules |-> d]
    /\ loaded = {}
    /\ mounts = DefaultMounts
    /\ cond = {}
    /\ call = NoCall
    /\ executed = <<>>
    /\ printed = <<>>
    /\ selected = <<>>
    /\ DefaultMachine
    /\ NoAux

\* check_service_not_installed of cis_services_audit.py on the probe result
ServiceNotInstalledOnProbe ==
    LET r == cis_services_audit_check_service_not_installed_on(probe)
    IN  /\ call' = [NoCall EXCEPT !.op = "probe.service_not_installed",
                                  !.passed = r.passed, !.raised = r.raised]
        /\ UNCHANGED <<envvars, auxvars, executed, printed, selected>>

\* check_kernel_module_not_loaded of cis_filesystem_audit.py on the probe result
CisKernelModuleNotLoadedOnProbe(m) ==
    LET r == cis_filesystem_audit_check_kernel_module_not_loaded_on(probe, m)
    IN  /\ call' = [NoCall EXCEPT !.op = "probe.kernel_module_not_loaded", !.target = m,
                                  !.passed = r.passed, !.raised = r.raised]
        /\ output' = <<cis_filesystem_audit_check_kernel_module_not_loaded_message_on(probe, m)>>
        /\ UNCHANGED <<envvars, previous, registry, executed, printed, selected>>

\* check_mount_option of cis_filesystem_audit.py on the probe result
CisMountOptionOnProbe(o) ==
    LET r == cis_filesystem_audit_check_mount_option_on(probe, o)
    IN  /\ call' = [NoCall EXCEPT !.op = "probe.mount_option", !.mode = o,
                                  !.passed = r.passed, !.raised = r.raised]
        /\ output' = <<cis_filesystem_audit_check_mount_option_message_on(probe, "/tmp", o)>>
        /\ UNCHANGED <<envvars, previous, registry, executed, printed, selected>>

\* check_separate_partition of cis_filesystem_audit.py on the probe result
CisSeparatePartitionOnProbe ==
    LET r == cis_filesystem_audit_check_separate_partition_on(probe)
    IN  /\ call' = [NoCall EXCEPT !.op = "probe.separate_partition",
                                  !.passed = r.passed, !.raised = r.raised]
        /\ output' = <<cis_filesystem_audit_check_separate_partition_message_on(probe, "/tmp")>>
        /\ UNCHANGED <<envvars, previous, registry, executed, printed, selected>>

\* check_kernel_module_disabled of cis_filesystem_audit.py: its grep over
\* /etc/modprobe.conf hands back the probe result, the two over the patterns
\* with an asterisk get what grep answers on the machine
CisKernelModuleDisabledOnProbe(m) ==
    LET greps == [GrepResults(m) EXCEPT ![2] = probe]
        r == cis_filesystem_audit_check_kernel_module_disabled_on(greps, m)
    IN  /\ call' = [NoCall EXCEPT !.op = "probe.kernel_module_disabled", !.target = m,
                                  !.passed = r.passed, !.raised = r.raised]
        /\ output' = <<r.message>>
        /\ UNCHANGED <<envvars, previous, registry, executed, printed, selected>>

\* a single-module check of modules/kernel/fs_modules.py whose lsmod | grep
\* probe hands back the probe result
FsModulesCheckOnProbe(m) ==
    /\ call' = [NoCall EXCEPT !.op = "probe.fs_modules", !.target = m,
                              !.passed = fs_modules_check_on(probe, ModprobeResult(m))]
    /\ UNCHANGED <<envvars, auxvars, executed, printed, selected>>

\* the same for fs_kernel_modules.py
FsKernelModulesCheckOnProbe(m) ==
    /\ call' = [NoCall EXCEPT !.op = "probe.fs_kernel_modules", !.target = m,
                              !.passed = fs_kernel_modules_check_on(probe, ModprobeResult(m))]
    /\ UNCHANGED <<envvars, auxvars, executed, printed, selected>>

\* the files that define _run_command
WrapperModules ==
    {"fs_kernel_modules", "fs_modules", "partitions", "repositories", "updates", "apparmor",
     "configuration", "process_restrictions", "warning_banners"}

\* _run_command of a module is called and the command behaves as the probe
\* result tells; the try block holds the whole body and the handler takes
\* every Exception, so the call returns
ModuleRunCommand(module) ==
    /\ call' = [NoCall EXCEPT !.op = "_run_command", !.target = module]
    /\ output' = _run_command_returns(probe)
    /\ UNCHANGED <<envvars, previous, registry, executed, printed, selected>>

\* the same for run_command of cis_filesystem_audit.py
CisRunCommand ==
    /\ call' = [NoCall EXCEPT !.op = "run_command", !.target = "cis_filesystem_audit"]
    /\ output' = run_command_returns(probe)
    /\ UNCHANGED <<envvars, previous, registry, executed, printed, selected>>

NextProbes ==
    \/ \E module \in WrapperModules : ModuleRunCommand(module)
    \/ CisRunCommand
    \/ ServiceNotInstalledOnProbe
    \/ \E m \in ProbedModules : CisKernelModuleNotLoadedOnProbe(m)
    \/ \E m \in ProbedModules : CisKernelModuleDisabledOnProbe(m)
    \/ \E o \in Options : CisMountOptionOnProbe(o)
    \/ CisSeparatePartitionOnProbe
    \/ \E m \in ProbedModules : FsModulesCheckOnProbe(m)
    \/ \E m \in ProbedModules : FsKernelModulesCheckOnProbe(m)

SpecProbes == InitProbes /\ [][NextProbes]_vars

ProbeOps ==
    {"probe.service_not_installed", "probe.kernel_module_not_loaded", "probe.mount_option",
     "probe.separate_partition", "probe.fs_modules", "probe.fs_kernel_modules"}

ExitCodeOps ==
    {"probe.kernel_module_not_loaded", "probe.mount_option", "probe.separate_partition"}

C20_WrappersNeverRaise ==
    /\ call.op = "_run_command" =>
          /\ ~call.raised
          /\ Len(output) = 3
          /\ probe.launched =>
                output = <<Strip(probe.stdout), Strip(probe.stderr), probe.returncode>>
          /\ ~probe.launched => output = <<"", probe.error, 1>>
    /\ call.op = "run_command" =>
          /\ ~call.raised
          /\ Len(output) = 3
          /\ probe.launched => output = <<probe.returncode, probe.stdout, probe.stderr>>
          /\ ~probe.launched => output = <<1, "", probe.error>>

\* _run_command of modules/kernel/fs_modules.py was called and launching the
\* command raised
C20_Witness ==
    /\ call.op = "_run_command" /\ call.target = "fs_modules"
    /\ ~probe.launched
    /\ output = <<"", "[Errno 2] No such file or directory", 1>>

\* the probe could not be launched, or exited non-zero with text on stderr
ProbeErrored == ~probe.launched \/ (probe.returncode # 0 /\ probe.stderr # "")

\* the checks of cis_filesystem_audit.py that issue lsmod, grep and findmnt
StderrOps == {"probe.kernel_module_not_loaded", "probe.kernel_module_disabled",
              "probe.mount_option"}

\* C21: in cis_filesystem_audit, a check whose probe (lsmod, grep, findmnt)
\* could not be launched or exited non-zero with text on stderr returns
\* passed = False with a message that contains the probe's stderr text.
C21_FailedProbeStderrInMessage ==
    (call.op \in StderrOps /\ ProbeErrored) =>
        /\ ~call.passed
        /\ ~call.raised
        /\ Len(output) = 1
        /\ Contains(output[1], run_command(probe).stderr)

(***************************************************************************)
(* The mount checks.                                                       *)
(***************************************************************************)

InitMountsEnv ==
    \E t \in MountEntries, d \in MountEntries, r \in RootEntries :
        mounts = [p \in MountPoints \cup {"/"} |->
                     IF p = "/" THEN r ELSE IF p = "/tmp" THEN t ELSE d]

InitMounts ==
    /\ InitMountsEnv
    /\ loaded = {}
    /\ modprobe = [m \in AllModules |-> "insmod"]
    /\ cond = {}
    /\ probe = NoProbe
    /\ call = NoCall
    /\ executed = <<>>
    /\ printed = <<>>
    /\ selected = <<>>
    /\ DefaultMachine
    /\ NoAux

PartitionsCheckTmpPartition ==
    /\ call' = [NoCall EXCEPT !.op = "partitions.check_partition", !.target = "/tmp",
                              !.passed = partitions_check_tmp_partition]
    /\ UNCHANGED <<envvars, auxvars, executed, printed, selected>>

PartitionsCheckTmpOption(o) ==
    /\ call' = [NoCall EXCEPT !.op = "partitions.check_option", !.target = "/tmp",
                              !.mode = o, !.passed = partitions_check_tmp_option(o)]
    /\ UNCHANGED <<envvars, auxvars, executed, printed, selected>>

PartitionsCheckDevShmPartition ==
    /\ call' = [NoCall EXCEPT !.op = "partitions.check_partition", !.target = "/dev/shm",
                              !.passed = partitions_check_dev_shm_partition]
    /\ UNCHANGED <<envvars, auxvars, executed, printed, selected>>

PartitionsCheckDevShmOption(o) ==
    /\ call' = [NoCall EXCEPT !.op = "partitions.check_option", !.target = "/dev/shm",
                              !.mode = o, !.passed = partitions_check_dev_shm_option(o)]
    /\ UNCHANGED <<envvars, auxvars, executed, printed, selected>>

CisCheckMountOption(p, o) ==
    LET r == cis_filesystem_audit_check_mount_option(p, o)
    IN  /\ call' = [NoCall EXCEPT !.op = "cis_filesystem_audit.check_option", !.target = p,
                                  !.mode = o, !.passed = r.passed, !.raised = r.raised]
        /\ UNCHANGED <<envvars, auxvars, executed, printed, selected>>

CisCheckSeparatePartition(p) ==
    LET r == cis_filesystem_audit_check_separate_partition(p)
    IN  /\ call' = [NoCall EXCEPT !.op = "cis_filesystem_audit.check_partition", !.target = p,
                                  !.passed = r.passed, !.raised = r.raised]
        /\ UNCHANGED <<envvars, auxvars, executed, printed, selected>>

NextMounts ==
    \/ PartitionsCheckTmpPartition
    \/ \E o \in Options : PartitionsCheckTmpOption(o)
    \/ PartitionsCheckDevShmPartition
    \/ \E o \in Options : PartitionsCheckDevShmOption(o)
    \/ \E p \in MountPoints, o \in Options : CisCheckMountOption(p, o)
    \/ \E p \in MountPoints : CisCheckSeparatePartition(p)

SpecMounts == InitMounts /\ [][NextMounts]_vars

OptionCheckOps == {"partitions.check_option", "cis_filesystem_audit.check_option"}

\* C6: a /tmp option check of modules/filesystem/partitions passes if and
\* only if /tmp is mounted on a device other than the root file system's and
\* the option is an element of its comma-separated option list; in every
\* other case, /tmp not being a separate partition included, it fails.
C6_TmpOptionIff ==
    (call.op = "partitions.check_option" /\ call.target = "/tmp") =>
        /\ ~call.raised
        /\ call.passed <=> (NonRootMount("/tmp") /\ OptionSet("/tmp", call.mode))

\* C6 witness: the example of the claim, options rw,nosuid,nodev,relatime on
\* a device that is not the root's: nodev has passed.
C6_Witness ==
    /\ call.op = "partitions.check_option" /\ call.target = "/tmp"
    /\ call.mode = "nodev" /\ call.passed
    /\ mounts["/tmp"].options = <<"rw", "nosuid", "nodev", "relatime">>
    /\ NonRootMount("/tmp")

\* C7 as stated: every mount-option check passes only if the mount point is
\* mounted on a device other than the root file system's and carries the
\* option.
C7_PassOnlyIfNonRootMount ==
    (call.op \in OptionCheckOps /\ ~call.raised /\ call.passed) =>
        (NonRootMount(call.target) /\ OptionSet(call.target, call.mode))

\* C7 amended: every mount-option check passes only if the mount point is
\* mounted and carries the option; only the /tmp checks of
\* modules/filesystem/partitions also require a device other than the
\* root's.
C7_PassOnlyIfMountedWithOption ==
    (call.op \in OptionCheckOps /\ ~call.raised /\ call.passed) =>
        /\ OptionSet(call.target, call.mode)
        /\ (call.op = "partitions.check_option" /\ call.target = "/tmp")
              => NonRootMount("/tmp")

\* C7 witness: an option check has passed on a mount point that shares the
\* root file system's device.
C7_Witness ==
    /\ call.op \in OptionCheckOps /\ ~call.raised /\ call.passed
    /\ mounts[call.target].mounted
    /\ mounts[call.target].source = mounts["/"].source

(***************************************************************************)
(* The command-line operations of cis_audit.py and the section runners.    *)
(***************************************************************************)

MaxFailing == 1

\* the checks of sections 1.2 to 1.6 that read their probes
CondChecks ==
    {"1.2.1.1", "1.2.1.2", "1.2.2.1", "1.3.1.1", "1.3.1.2", "1.3.1.3", "1.4.1", "1.4.2",
     "1.5.1", "1.5.2", "1.5.3", "1.5.4", "1.5.5", "1.6.2", "1.6.3", "1.6.4"}

\* the sets of at most n of those checks
RECURSIVE FailingSets(_)
FailingSets(n) ==
    IF n = 0 THEN {{}}
    ELSE FailingSets(n - 1) \cup {s \cup {c} : s \in FailingSets(n - 1), c \in CondChecks}

GroupNames == {MODULES[i].name : i \in DOMAIN MODULES}

SubmoduleNames ==
    UNION {{MODULES[i].submodules[j].name : j \in DOMAIN MODULES[i].submodules} :
              i \in DOMAIN MODULES}

UnknownTargets == {"services", "1.1.1"}

Targets == {"all"} \cup GroupNames \cup SubmoduleNames \cup UnknownTargets

RunnerModules == SubmoduleNames \cup {"fs_kernel_modules"}

Hardened ==
    [mounted |-> TRUE, full |-> TRUE, source |-> "tmpfs", fstype |-> "tmpfs",
     options |-> <<"rw", "nosuid", "nodev", "noexec", "relatime">>]

\* the machines audited: cramfs loaded or not, every module disabled; /tmp
\* and /dev/shm hardened or not mounted; at most MaxFailing of the remaining
\* checks not satisfied
InitCtl ==
    /\ loaded \in {{}, {"cramfs"}}
    /\ modprobe = [m \in AllModules |-> "install_true"]
    /\ \E t \in {NotMounted, Hardened}, d \in {NotMounted, Hardened} :
          mounts = [p \in MountPoints \cup {"/"} |->
                       IF p = "/" THEN DefaultRoot ELSE IF p = "/tmp" THEN t ELSE d]
    /\ \E failing \in FailingSets(MaxFailing) : cond = CondChecks \ failing
    /\ probe = NoProbe
    /\ call = NoCall
    /\ executed = <<>>
    /\ printed = <<>>
    /\ selected = <<>>
    /\ DefaultMachine
    /\ NoAux

\* no operation is in progress: main is about to call the next one
Idle == call.op = "none"

ModeOf(user_friendly) == IF user_friendly THEN "user_friendly" ELSE "technical"

FilterModules(t) ==
    /\ Idle
    /\ call' = [NoCall EXCEPT !.op = "filter_modules", !.target = t]
    /\ selected' = filter_modules(t)
    /\ executed' = <<>>
    /\ printed' = <<>>
    /\ registry' = after_filter_modules(t)
    /\ UNCHANGED <<envvars, output, previous>>

RunAudits(t, user_friendly) ==
    /\ Idle
    /\ \E r \in {run_audits(t, user_friendly)} :
          /\ call' = [NoCall EXCEPT !.op = "run_audits", !.target = t,
                          !.mode = ModeOf(user_friendly),
                          !.passed = r.passed, !.raised = r.raised]
          /\ selected' = r.selected
          /\ executed' = r.executed
          /\ printed' = r.printed
          /\ output' = r.assigned
          /\ registry' = after_filter_modules(t)
          /\ UNCHANGED <<envvars, previous>>

RunRemediations(t, user_friendly) ==
    /\ Idle
    /\ \E r \in {run_remediations(t, user_friendly)} :
          /\ call' = [NoCall EXCEPT !.op = "run_remediations", !.target = t,
                          !.mode = ModeOf(user_friendly),
                          !.passed = r.passed, !.raised = r.raised]
          /\ selected' = r.selected
          /\ executed' = r.executed
          /\ printed' = r.printed
          /\ output' = r.invoked
          /\ registry' = after_filter_modules(t)
          /\ UNCHANGED <<envvars, previous>>

\* run_all_audits() of one module, called without return_results
RunAllAudits(module) ==
    /\ Idle
    /\ \E r \in {run_all_audits(module, FALSE)} :
          /\ call' = [NoCall EXCEPT !.op = "run_all_audits", !.target = module,
                          !.passed = r.passed, !.raised = r.raised]
          /\ selected' = <<>>
          /\ executed' = r.executed
          /\ printed' = <<>>
          /\ UNCHANGED <<envvars, auxvars>>

\* run_user_friendly_audit of user_friendly_report.py: it looks in MODULES
\* for an entry named "fs_kernel_modules"; without one it skips the block
\* that runs the checks and assigns passed, prints the closing line and
\* reaches `return passed` with passed unbound.  With one, the block reads
\* module_info["title"], which a group does not have, and would call
\* fs_kernel_modules.run_all_audits(return_results=True), which takes no
\* argument.
run_user_friendly_audit ==
    LET module_info == SelectSeq(registry, LAMBDA m : m.name = "fs_kernel_modules")
    IN  [executed |-> <<>>,
         raised   |-> TRUE,
         passed   |-> FALSE,
         printed  |-> IF module_info = <<>>
                      THEN <<"Starting User-Friendly Security Audit...", "=">>
                      ELSE <<"Starting User-Friendly Security Audit...">>]

\* python3 user_friendly_report.py audit
RunUserFriendlyAudit ==
    /\ Idle
    /\ \E r \in {run_user_friendly_audit} :
          /\ call' = [NoCall EXCEPT !.op = "run_user_friendly_audit",
                                    !.mode = "user_friendly",
                                    !.passed = r.passed, !.raised = r.raised]
          /\ executed' = r.executed
          /\ printed' = r.printed
    /\ selected' = <<>>
    /\ UNCHANGED <<envvars, auxvars>>

\* the operation's result goes back to main, which goes on to its next
\* target or returns
Done ==
    /\ ~Idle
    /\ call' = NoCall
    /\ selected' = <<>>
    /\ executed' = <<>>
    /\ printed' = <<>>
    /\ output' = NoOutput
    /\ UNCHANGED <<envvars, previous, registry>>

NextCtl ==
    \/ Done
    \/ RunUserFriendlyAudit
    \/ \E t \in Targets : FilterModules(t)
    \/ \E t \in Targets, user_friendly \in BOOLEAN : RunAudits(t, user_friendly)
    \/ \E t \in Targets, user_friendly \in BOOLEAN : RunRemediations(t, user_friendly)
    \/ \E module \in RunnerModules : RunAllAudits(module)

SpecCtl == InitCtl /\ [][NextCtl]_vars

\* a target that names the whole registry, a group or a submodule
Known(t) == t = "all" \/ t \in GroupNames \/ t \in SubmoduleNames

EveryCheckPassed == \A i \in 1..Len(executed) : ~executed[i].raised /\ executed[i].passed


\* C1: for every known target and in both output modes run_audits returns
\* True if and only if every check it executed returned passed = True, and
\* the other mode returns the same boolean on the same machine.
C1_VerdictIsAllPassed ==
    (call.op = "run_audits" /\ Known(call.target)) =>
        LET other == run_audits(call.target, call.mode # "user_friendly")
        IN  /\ ~call.raised
            /\ call.passed <=> EveryCheckPassed
            /\ ~other.raised /\ other.passed = call.passed

\* C2: a section runner called without return_results returns True if and
\* only if every check it executed in that call returned passed = True.
C2_RunnerVerdict ==
    call.op = "run_all_audits" =>
        ((~call.raised /\ call.passed) <=>
            \A i \in 1..Len(executed) :
                executed[i].kind = "check" /\ ~executed[i].raised /\ executed[i].passed)

\* C2 witness: a runner has run its eight checks and returned True.
C2_Witness ==
    /\ call.op = "run_all_audits" /\ ~call.raised /\ call.passed
    /\ Len(executed) = 8

\* C3: for every known target and both output modes run_audits returns a
\* boolean: no check and no section runner lets an exception propagate.
C3_NoException ==
    (call.op = "run_audits" /\ Known(call.target)) =>
        /\ ~call.raised
        /\ \A i \in 1..Len(executed) : ~executed[i].raised

\* the position of a group name in the registry
GroupIndex(n) == CHOOSE i \in DOMAIN MODULES : MODULES[i].name = n

\* C8: filter_modules returns the whole registry for 'all', exactly the
\* group for a group name, one group entry holding exactly the submodule
\* for a submodule name, and the empty list for any other name; the result
\* keeps the registry's order and holds only registry entries.
C8_FilterModules ==
    call.op = "filter_modules" =>
        /\ call.target = "all" => selected = MODULES
        /\ \A i \in DOMAIN MODULES :
              MODULES[i].name = call.target => selected = <<MODULES[i]>>
        /\ \A i \in DOMAIN MODULES : \A j \in DOMAIN MODULES[i].submodules :
              MODULES[i].submodules[j].name = call.target =>
                  selected = <<[name |-> MODULES[i].name,
                                submodules |-> <<MODULES[i].submodules[j]>>]>>
        /\ ~Known(call.target) => selected = <<>>
        /\ \A k \in DOMAIN selected :
              /\ selected[k].name \in GroupNames
              /\ \A j \in DOMAIN selected[k].submodules :
                    \E l \in DOMAIN MODULES[GroupIndex(selected[k].name)].submodules :
                        MODULES[GroupIndex(selected[k].name)].submodules[l]
                            = selected[k].submodules[j]
        /\ \A k \in DOMAIN selected : \A l \in DOMAIN selected :
              k < l => GroupIndex(selected[k].name) < GroupIndex(selected[l].name)

\* C8 witness: a submodule of a group of two has been selected alone.
C8_Witness ==
    /\ call.op = "filter_modules" /\ call.target = "updates"
    /\ Len(selected) = 1 /\ selected[1].name = "package_management"
    /\ Len(selected[1].submodules) = 1

\* C9: for a target that names no group and no submodule, run_audits and
\* run_remediations execute no check and no remediation, print the
\* not-found message with every valid target, return False and do not
\* raise.
C9_UnknownTarget ==
    (call.op \in {"run_audits", "run_remediations"} /\ ~Known(call.target)) =>
        /\ executed = <<>>
        /\ ~call.raised /\ ~call.passed
        /\ Len(printed) >= 2
        /\ printed[1] = "Error: Module '" \o call.target \o "' not found."
        /\ \A g \in GroupNames : InList("  - " \o g \o " (group)", printed)
        /\ \A n \in SubmoduleNames : InList("    - " \o n, printed)

\* C9 witness: run_remediations has been called for an unknown target.
C9_Witness ==
    /\ call.op = "run_remediations" /\ call.target = "services"
    /\ printed # <<>> /\ executed = <<>>

\* run_audits returned for a known target with a failed check among those
\* it executed
FailedAudit(r) ==
    /\ r.selected # <<>> /\ ~r.raised
    /\ \E i \in 1..Len(r.executed) : ~r.executed[i].passed

\* C10, by the value returned: the value run_audits returns for an unknown
\* target differs from the value it returns, on the same machine, for any
\* known target whose checks failed.
C10_NotFoundValueDistinct ==
    (call.op = "run_audits" /\ ~Known(call.target)) =>
        \A t \in Targets : \A user_friendly \in BOOLEAN :
            FailedAudit(run_audits(t, user_friendly)) =>
                run_audits(t, user_friendly).passed # call.passed

\* C10, by the report: run_audits prints the not-found message exactly when
\* the target is unknown; the value it returns then is False, which is also
\* the value it returns for a known target whose checks failed.
C10_NotFoundReported ==
    call.op = "run_audits" =>
        /\ (printed # <<>> /\ printed[1] = "Error: Module '" \o call.target \o "' not found.")
              <=> ~Known(call.target)
        /\ ~Known(call.target) => (~call.raised /\ call.passed = FALSE)
        /\ (Known(call.target) /\ ~call.raised /\ ~EveryCheckPassed) => call.passed = FALSE

\* C10 witness: run_audits has reported an unknown target on a machine where
\* a known target has failed checks.
C10_Witness ==
    /\ call.op = "run_audits" /\ ~Known(call.target)
    /\ printed # <<>> /\ ~call.passed
    /\ FailedAudit(run_audits("filesystem", FALSE))

(***************************************************************************)
(* The remediation runs: run_all_remediations of fs_kernel_modules.py and  *)
(* of modules/kernel/fs_modules.py one remediation function at a time and  *)
(* then the verification audit, run_all_remediations of the other modules, *)
(* and run_remediations of cis_audit.py.                                   *)
(***************************************************************************)

\* the modules that call remediation functions and then audit again
RemediationRunners == {"fs_kernel_modules", "fs_modules"}

\* the modules whose remediations print manual instructions only
ManualModules == SubmoduleNames \ {"fs_modules"}

\* the modules whose configuration file may be refused, and those rmmod may
\* find in use
RefusedModules == {"cramfs", "vfat"}

BusyModules == {"cramfs", "vfat"}

\* the machines remediated: any subset of LoadableModules loaded, some of
\* them in use; every module insertable or every module unknown; no
\* configuration file yet, and the file of one module, of every module or of
\* none refused
InitRemediate ==
    /\ loaded \in SUBSET LoadableModules
    /\ busy \in SUBSET (loaded \cap BusyModules)
    /\ \E d \in {"insmod", "not_found"} : modprobe = [m \in AllModules |-> d]
    /\ unwritable \in {{}, {ConfFile(m) : m \in AllModules}}
                        \cup {{ConfFile(m)} : m \in RefusedModules}
    /\ files = NoFiles
    /\ packages = {}
    /\ units = NoUnits
    /\ mounts = DefaultMounts
    /\ cond = CondChecks
    /\ probe = NoProbe
    /\ call = NoCall
    /\ executed = <<>>
    /\ printed = <<>>
    /\ selected = <<>>
    /\ NoAux

\* run_all_remediations is in its loop over the remediation functions
Remediating(runner) ==
    /\ call.op = "run_all_remediations"
    /\ call.target = runner
    /\ call.mode = "remediating"

\* run_all_remediations is entered
StartRemediations(runner) ==
    /\ Idle
    /\ call' = [NoCall EXCEPT !.op = "run_all_remediations", !.target = runner,
                              !.mode = "remediating"]
    /\ executed' = <<>>
    /\ printed' = <<>>
    /\ selected' = <<>>
    /\ output' = NoOutput
    /\ UNCHANGED <<envvars, previous, registry>>

\* the loop calls the next remediation function and drops what it returns
RemediateNext(runner) ==
    /\ Remediating(runner)
    /\ Len(executed) < Len(fs_kernel_modules_remediation_functions)
    /\ \E i \in {Len(executed) + 1} :
          IF runner = "fs_kernel_modules"
          THEN \E e \in {fs_kernel_modules_remediation_functions[i]} :
               \E r \in {fs_kernel_modules_remediate(e, Machine(loaded, files, output))} :
                    /\ loaded' = r.loaded
                    /\ files' = r.files
                    /\ output' = r.effects
                    /\ executed' = Append(executed, Remediation(KernelDesc(e[1], e[2]), r.result))
          ELSE /\ executed' = Append(executed, RemediationsOf(runner)[i])
               /\ UNCHANGED <<loaded, files, output>>
    /\ UNCHANGED <<modprobe, mounts, cond, probe, unwritable, busy, packages, units,
                   call, printed, selected, previous, registry>>

\* a return value that also requires every remediation function to have
\* returned True
return_when_remediations_succeeded(remediations, verification) ==
    all_passed(remediations) /\ verification.passed

\* what run_all_remediations returns: the verdict of the audit it ends with
run_all_remediations_return(remediations, verification) == verification.passed

\* after the loop the runner audits again and returns the audit's verdict
VerifyRemediations(runner) ==
    /\ Remediating(runner)
    /\ Len(executed) = Len(fs_kernel_modules_remediation_functions)
    /\ \E v \in {run_all_audits(runner, FALSE)} :
          /\ executed' = executed \o v.executed
          /\ call' = [call EXCEPT !.mode = "verified", !.raised = v.raised,
                                  !.passed = run_all_remediations_return(executed, v)]
    /\ UNCHANGED <<envvars, auxvars, printed, selected>>

\* run_all_remediations() of a module that prints manual instructions
RunAllRemediations(module) ==
    /\ Idle
    /\ \E r \in {run_all_remediations(module)} :
          /\ call' = [NoCall EXCEPT !.op = "run_all_remediations", !.target = module,
                                    !.mode = "returned",
                                    !.passed = r.passed, !.raised = r.raised]
          /\ executed' = r.executed
    /\ printed' = <<>>
    /\ selected' = <<>>
    /\ UNCHANGED <<envvars, auxvars>>

\* the operation has returned: its caller goes on
Finished ==
    /\ ~Idle
    /\ call.mode # "remediating"
    /\ call' = NoCall
    /\ executed' = <<>>
    /\ printed' = <<>>
    /\ selected' = <<>>
    /\ output' = NoOutput
    /\ UNCHANGED <<envvars, previous, registry>>

NextRemediate ==
    \/ \E runner \in RemediationRunners : StartRemediations(runner)
    \/ \E runner \in RemediationRunners : RemediateNext(runner)
    \/ \E runner \in RemediationRunners : VerifyRemediations(runner)
    \/ \E module \in ManualModules : RunAllRemediations(module)
    \/ \E t \in Targets, user_friendly \in BOOLEAN : RunRemediations(t, user_friendly)
    \/ Finished

SpecRemediate == InitRemediate /\ [][NextRemediate]_vars

\* the modules whose configuration files the i-th remediation function of
\* fs_kernel_modules writes
ModulesOfEntry(i) ==
    IF fs_kernel_modules_remediation_functions[i][2] = "FAT" THEN FatModules
    ELSE {fs_kernel_modules_remediation_functions[i][2]}

\* the run opened the path for writing
WriteAttempted(path) ==
    \E k \in 1..Len(output) : output[k].kind = "write" /\ output[k].target = path

\* C11: in fs_kernel_modules a remediation function whose write of a
\* configuration file is refused returns False without raising, the loop of
\* run_all_remediations goes on with the next function, and the verification
\* audit is reached only after all eight functions were invoked, in order.
C11_WriteFailureReturnsFalse ==
    (call.op = "run_all_remediations" /\ call.target = "fs_kernel_modules") =>
        /\ \A i \in 1..Len(executed) :
              i <= 8 =>
                  /\ executed[i].kind = "remediation"
                  /\ executed[i].desc =
                        KernelDesc(KernelIds[i], fs_kernel_modules_remediation_functions[i][2])
                  /\ ~executed[i].raised
                  /\ \A m \in ModulesOfEntry(i) :
                        (WriteAttempted("/etc/modprobe.d/" \o m \o ".conf")
                            /\ ("/etc/modprobe.d/" \o m \o ".conf") \in unwritable)
                        => ~executed[i].passed
        /\ call.mode = "verified" => Len(executed) >= 8
        /\ (call.mode = "remediating" /\ Len(executed) < 8)
              => ENABLED RemediateNext("fs_kernel_modules")

\* the write of cramfs.conf was refused, remediate_cramfs returned False, the
\* seven later functions were invoked and the next returned True
C11_Witness ==
    /\ call.op = "run_all_remediations"
    /\ call.target = "fs_kernel_modules"
    /\ call.mode = "verified"
    /\ "/etc/modprobe.d/cramfs.conf" \in unwritable
    /\ WriteAttempted("/etc/modprobe.d/cramfs.conf")
    /\ ~executed[1].passed
    /\ executed[2].passed
    /\ \A i \in 1..8 : executed[i].kind = "remediation"

\* C12: in run_all_remediations of fs_kernel_modules and of
\* modules/kernel/fs_modules no check of the verification audit runs before
\* all eight remediation functions were invoked; the audit runs each of its
\* eight checks exactly once, on the machine the remediations left; and the
\* value returned is the audit's verdict, whatever the remediation functions
\* returned.
C12_VerificationAfterRemediations ==
    (call.op = "run_all_remediations" /\ call.target \in RemediationRunners) =>
        /\ \A i \in 1..Len(executed) : executed[i].kind = "check" <=> i > 8
        /\ call.mode = "remediating" => Len(executed) <= 8
        /\ call.mode = "verified" =>
              /\ Len(executed) = 16
              /\ \A i \in 9..16 :
                    /\ StartsWith(executed[i].desc, KernelIds[i - 8])
                    /\ executed[i] = ResultsOf(call.target)[i - 8]
              /\ ~call.raised
              /\ call.passed <=> \A i \in 9..16 : executed[i].passed

\* a run of fs_kernel_modules whose remediate_cramfs returned False (its file
\* was refused) and whose verification audit passed all the same
C12_Witness ==
    /\ call.op = "run_all_remediations"
    /\ call.target = "fs_kernel_modules"
    /\ call.mode = "verified"
    /\ Len(executed) = 16
    /\ ~executed[1].passed
    /\ call.passed

\* a file of /etc/modprobe.d holds the line that disables the module
ConfigFileCreated(m) ==
    \E p \in DOMAIN files :
        /\ StartsWith(p, "/etc/modprobe.d/")
        /\ Contains(files[p], "install " \o m \o " /bin/true")

\* C13: when run_remediations of cis_audit.py returns True for the target
\* 'all', 'kernel' or 'fs_modules', every module of section 1.1.1 has a
\* configuration file with the line 'install <module> /bin/true'.
C13_ControllerCreatesConfigFiles ==
    (/\ call.op = "run_remediations"
     /\ call.target \in {"all", "kernel", "fs_modules"}
     /\ call.passed)
        => \A m \in SingleModules \cup {"fat", "vfat"} : ConfigFileCreated(m)

\* C14: run_all_remediations of a module that only prints manual
\* instructions never reports success: neither one of its remediation
\* functions nor the runner returns True.
C14_ManualNeverSuccess ==
    (call.op = "run_all_remediations" /\ call.target \in ManualModules) =>
        /\ ~call.passed
        /\ \A i \in 1..Len(executed) : ~executed[i].passed

\* the lines of a file's content
Lines(s) == SplitOn(s, "\n")

\* the lines of a configuration file that are not comments
Directives(s) ==
    SelectSeq(Lines(s), LAMBDA l : l # "" /\ ~StartsWith(l, "#"))

\* the step is one remediation function of fs_kernel_modules.run_all_remediations
FsKernelModulesRemediationStep ==
    /\ Remediating("fs_kernel_modules")
    /\ Len(executed') = Len(executed) + 1
    /\ Len(executed') <= 8

\* the step belongs to a remediation that only prints manual instructions:
\* a runner of ManualModules, run_remediations of cis_audit.py, or a step of
\* modules/kernel/fs_modules.run_all_remediations
ManualRemediationStep ==
    \/ call'.op = "run_all_remediations" /\ call'.target \in ManualModules \cup {"fs_modules"}
    \/ call'.op = "run_remediations"

\* C15: a remediation writes no file but /etc/modprobe.d/<module>.conf of a
\* module it is remediating, and what it writes there disables that module
\* with the one directive 'install <module> /bin/true'; the remediations that
\* print manual instructions change neither the files nor the module table
\* nor anything else of the machine.
C15_RemediationWrites ==
    [][ /\ \A p \in DOMAIN files' :
              (p \notin DOMAIN files \/ files'[p] # files[p]) =>
                  /\ FsKernelModulesRemediationStep
                  /\ \E m \in ModulesOfEntry(Len(executed')) :
                        /\ p = "/etc/modprobe.d/" \o m \o ".conf"
                        /\ Directives(files'[p]) = << "install " \o m \o " /bin/true" >>
        /\ DOMAIN files \subseteq DOMAIN files'
        /\ loaded' # loaded => FsKernelModulesRemediationStep
        /\ ManualRemediationStep => UNCHANGED envvars
      ]_vars

\* remediate_cramfs has written /etc/modprobe.d/cramfs.conf, and a manual
\* runner has returned on the machine that run left
C15_Witness ==
    /\ "/etc/modprobe.d/cramfs.conf" \in DOMAIN files
    /\ call.op = "run_all_remediations"
    /\ call.target \in ManualModules
    /\ call.mode = "returned"

(***************************************************************************)
(* The order of the checks of a run.                                       *)
(***************************************************************************)

\* the identifiers of a list of outcomes, in order
Descs(rs) == [i \in 1..Len(rs) |-> rs[i].desc]

\* the checks of the submodules subs, in the order the registry and the
\* runners list them
RECURSIVE RegistryChecks(_)
RegistryChecks(subs) ==
    IF subs = <<>> THEN <<>>
    ELSE Descs(ResultsOf(Head(subs).name)) \o RegistryChecks(Tail(subs))

\* C16: an audit run invokes every check of the selected registry exactly
\* once, in registry order, whatever the earlier checks returned: the checks
\* run by run_all_audits of a module are the module's checks in order, and
\* those run by run_audits are the checks of the selected submodules in
\* registry order.
C16_EveryCheckOnceInOrder ==
    /\ call.op = "run_all_audits" => Descs(executed) = Descs(ResultsOf(call.target))
    /\ (call.op = "run_audits" /\ Known(call.target)) =>
            Descs(executed) = RegistryChecks(SubmodulesOf(selected))

(***************************************************************************)
(* cis_filesystem_audit.py: the checks, the registry and main.             *)
(***************************************************************************)

\* the raw result of `lsmod`: the header and the module table
LsmodResult == Raw(0, "Module                  Size  Used by\n" \o LsmodLines(loaded), "")

cis_filesystem_audit_check_kernel_module_disabled(m) ==
    cis_filesystem_audit_check_kernel_module_disabled_on(GrepResults(m), m).passed

cis_filesystem_audit_check_kernel_module_not_loaded(m) ==
    cis_filesystem_audit_check_kernel_module_not_loaded_on(LsmodResult, m)

\* check_cramfs and its seven siblings
cis_filesystem_audit_check_module(m) ==
    Returned(cis_filesystem_audit_check_kernel_module_not_loaded(m).passed
                /\ cis_filesystem_audit_check_kernel_module_disabled(m))

\* an entry of a checks list: the name is "<id> <title>", the function is
\* given by its kind and arguments
Check(id, title, kind, target, option) ==
    [id |-> id, title |-> title, name |-> id \o " " \o title,
     kind |-> kind, target |-> target, option |-> option]

ModuleCheck(id, m) ==
    Check(id, "Ensure " \o m \o " kernel module is not available", "module", m, "")

PartitionCheck(id, title, p) == Check(id, title, "partition", p, "")

OptionCheck(id, o, p) ==
    Check(id, "Ensure " \o o \o " option set on " \o p \o " partition", "option", p, o)

\* checks of cis_filesystem_audit.py
cis_filesystem_audit_checks ==
    << ModuleCheck("1.1.1.1", "cramfs"),
       ModuleCheck("1.1.1.2", "freevxfs"),
       ModuleCheck("1.1.1.3", "hfs"),
       ModuleCheck("1.1.1.4", "hfsplus"),
       ModuleCheck("1.1.1.5", "jffs2"),
       ModuleCheck("1.1.1.6", "squashfs"),
       ModuleCheck("1.1.1.7", "udf"),
       ModuleCheck("1.1.1.8", "usb-storage"),
       PartitionCheck("1.1.2.1", "Ensure /tmp is a separate partition", "/tmp"),
       OptionCheck("1.1.2.2", "nodev", "/tmp"),
       OptionCheck("1.1.2.3", "noexec", "/tmp"),
       OptionCheck("1.1.2.4", "nosuid", "/tmp"),
       PartitionCheck("1.1.2.2.1", "Ensure /dev/shm is a separate partition", "/dev/shm"),
       OptionCheck("1.1.2.2.2", "nodev", "/dev/shm"),
       OptionCheck("1.1.2.2.3", "noexec", "/dev/shm"),
       OptionCheck("1.1.2.2.4", "nosuid", "/dev/shm"),
       PartitionCheck("1.1.2.3.1", "Ensure separate partition exists for /home", "/home"),
       OptionCheck("1.1.2.3.2", "nodev", "/home"),
       OptionCheck("1.1.2.3.3", "nosuid", "/home"),
       PartitionCheck("1.1.2.4.1", "Ensure separate partition exists for /var", "/var"),
       OptionCheck("1.1.2.4.2", "nodev", "/var"),
       OptionCheck("1.1.2.4.3", "nosuid", "/var"),
       PartitionCheck("1.1.2.5.1", "Ensure separate partition exists for /var/tmp", "/var/tmp"),
       OptionCheck("1.1.2.5.2", "nodev", "/var/tmp"),
       OptionCheck("1.1.2.5.3", "nosuid", "/var/tmp"),
       OptionCheck("1.1.2.5.4", "noexec", "/var/tmp"),
       PartitionCheck("1.1.2.6.1", "Ensure separate partition exists for /var/log", "/var/log"),
       OptionCheck("1.1.2.6.2", "nodev", "/var/log"),
       OptionCheck("1.1.2.6.3", "nosuid", "/var/log"),
       OptionCheck("1.1.2.6.4", "noexec", "/var/log"),
       PartitionCheck("1.1.2.7.1", "Ensure separate partition exists for /var/log/audit",
                      "/var/log/audit"),
       OptionCheck("1.1.2.7.2", "nodev", "/var/log/audit"),
       OptionCheck("1.1.2.7.3", "nosuid", "/var/log/audit"),
       OptionCheck("1.1.2.7.4", "noexec", "/var/log/audit") >>

\* func() for an entry of that list: check_tmp_partition and the like hand
\* on the verdict of check_separate_partition or check_mount_option
cis_filesystem_audit_func(c) ==
    CASE c.kind = "module" -> cis_filesystem_audit_check_module(c.target)
      [] c.kind = "partition" -> cis_filesystem_audit_check_separate_partition(c.target)
      [] OTHER -> cis_filesystem_audit_check_mount_option(c.target, c.option)

(***************************************************************************)
(* cis_services_audit.py: the checks, the registry and main.               *)
(***************************************************************************)

\* the raw result of `dpkg -s <package>`
DpkgResult(pkg) ==
    IF pkg \in packages
    THEN Raw(0, "Package: " \o pkg \o "\nStatus: install ok installed\n", "")
    ELSE Raw(1, "", "dpkg-query: package '" \o pkg \o "' is not installed\n")

cis_services_audit_check_service_not_installed(pkg) ==
    cis_services_audit_check_service_not_installed_on(DpkgResult(pkg))

\* the raw results of `systemctl is-active <unit>` and `systemctl is-enabled <unit>`
IsActiveResult(u) ==
    Raw(IF units[u].active = "active" THEN 0 ELSE 3, units[u].active \o "\n", "")

IsEnabledResult(u) ==
    Raw(IF units[u].enabled = "enabled" THEN 0 ELSE 1, units[u].enabled \o "\n", "")

\* check_chronyd: 'active' in stdout.strip(), 'enabled' in stdout.strip() and
\* os.path.isfile('/etc/chrony/chrony.conf')
cis_services_audit_check_chronyd ==
    /\ Contains(Strip(IsActiveResult("chronyd").stdout), "active")
    /\ Contains(Strip(IsEnabledResult("chronyd").stdout), "enabled")
    /\ "/etc/chrony/chrony.conf" \in DOMAIN files

\* check_systemd_timesyncd
cis_services_audit_check_systemd_timesyncd ==
    /\ Contains(Strip(IsActiveResult("systemd-timesyncd").stdout), "active")
    /\ Contains(Strip(IsEnabledResult("systemd-timesyncd").stdout), "enabled")

\* check_time_synchronization: chronyd first, then systemd-timesyncd
cis_services_audit_check_time_synchronization ==
    Returned(cis_services_audit_check_chronyd \/ cis_services_audit_check_systemd_timesyncd)

ServiceCheck(id, pkg) ==
    Check(id, "Ensure " \o pkg \o " is not installed", "service", pkg, "")

\* a list in which an entry was copied and its number not changed
checks_with_a_copied_entry ==
    << ServiceCheck("2.1.1", "xinetd"),
       ServiceCheck("2.1.1", "xinetd"),
       Check("2.2", "Ensure time synchronization is configured", "time", "", "") >>

\* checks of cis_services_audit.py
cis_services_audit_checks ==
    << ServiceCheck("2.1.1", "xinetd"),
       ServiceCheck("2.1.2", "openbsd-inetd"),
       ServiceCheck("2.1.3", "avahi-daemon"),
       ServiceCheck("2.1.4", "cups"),
       ServiceCheck("2.1.5", "isc-dhcp-server"),
       ServiceCheck("2.1.6", "slapd"),
       ServiceCheck("2.1.7", "nfs-kernel-server"),
       ServiceCheck("2.1.8", "bind9"),
       ServiceCheck("2.1.9", "vsftpd"),
       ServiceCheck("2.1.10", "apache2"),
       ServiceCheck("2.1.11", "dovecot"),
       ServiceCheck("2.1.12", "samba"),
       ServiceCheck("2.1.13", "squid"),
       ServiceCheck("2.1.14", "snmpd"),
       ServiceCheck("2.1.15", "rsync"),
       ServiceCheck("2.1.16", "nis"),
       Check("2.2", "Ensure time synchronization is configured", "time", "", "") >>

\* func() for an entry of that list
cis_services_audit_func(c) ==
    IF c.kind = "service" THEN cis_services_audit_check_service_not_installed(c.target)
    ELSE cis_services_audit_check_time_synchronization

\* main of both scripts starts with results = []
stale_results == previous.output

fresh_results == <<>>

\* status = "PASS" if passed else "FAIL"
status_always_pass(passed) == "PASS"

status_of(passed) == IF passed THEN "PASS" ELSE "FAIL"

\* the dictionary main appends for a check; its message is left out
ResultEntry(name, passed) ==
    [check |-> name, status |-> status_of(passed), passed |-> passed]

\* the calls main makes: func() of every entry of the list, in order
cis_filesystem_audit_calls ==
    [i \in 1..Len(cis_filesystem_audit_checks) |->
        LET c == cis_filesystem_audit_checks[i]
            r == cis_filesystem_audit_func(c)
        IN  IF r.raised THEN Exception(c.name) ELSE Outcome(c.name, r.passed)]

cis_services_audit_calls ==
    [i \in 1..Len(cis_services_audit_checks) |->
        LET c == cis_services_audit_checks[i]
            r == cis_services_audit_func(c)
        IN  IF r.raised THEN Exception(c.name) ELSE Outcome(c.name, r.passed)]

\* main: the loop over the checks stops at a call that raises; with --json
\* the list is printed after the loop, without it one line per check as the
\* loop goes ("[<status>] <name>: <message>", kept up to the colon)
main(calls, json) ==
    Once(UpToRaise(calls), LAMBDA rs :
        [executed |-> rs,
         raised   |-> AnyRaised(rs),
         results  |-> IF AnyRaised(rs) \/ ~json THEN NoOutput
                      ELSE fresh_results
                             \o [i \in 1..Len(rs) |-> ResultEntry(rs[i].desc, rs[i].passed)],
         printed  |-> IF json THEN <<>>
                      ELSE LET returned == SelectSeq(rs, LAMBDA r : ~r.raised)
                           IN  [i \in 1..Len(returned) |->
                                   "[" \o status_of(returned[i].passed) \o "] "
                                       \o returned[i].desc]])

(***************************************************************************)
(* The audits, run again and again on a machine that changes in between.   *)
(***************************************************************************)

AuditScripts == {"cis_filesystem_audit", "cis_services_audit"}

AuditRunners == {"fs_modules", "fs_kernel_modules"}

\* the modules and the package that come and go between two audits
AuditModules == {"cramfs", "udf"}

AuditPackages == {"cups"}

OutputMode(json) == IF json THEN "json" ELSE "text"

CallsOf(script) ==
    IF script = "cis_filesystem_audit" THEN cis_filesystem_audit_calls
    ELSE cis_services_audit_calls

ChecksOf(script) ==
    IF script = "cis_filesystem_audit" THEN cis_filesystem_audit_checks
    ELSE cis_services_audit_checks

\* a /tmp that is a tmpfs with nosuid and nodev, and one mounted with defaults
TmpMounts ==
    { NotMounted,
      [mounted |-> TRUE, full |-> TRUE, source |-> "tmpfs", fstype |-> "tmpfs",
       options |-> <<"rw", "nosuid", "nodev", "relatime">>],
      [mounted |-> TRUE, full |-> TRUE, source |-> "/dev/sda2", fstype |-> "ext4",
       options |-> <<"rw", "relatime">>] }

\* /etc/modprobe.conf disabling cramfs, and the configuration file of chrony
AuditFiles ==
    { NoFiles,
      [p \in {"/etc/modprobe.conf"} |-> "install cramfs /bin/true\n"],
      [p \in {"/etc/chrony/chrony.conf"} |-> "pool ntp.ubuntu.com iburst\n"],
      [p \in {"/etc/modprobe.conf", "/etc/chrony/chrony.conf"} |->
          IF p = "/etc/modprobe.conf" THEN "install cramfs /bin/true\n"
          ELSE "pool ntp.ubuntu.com iburst\n"] }

\* chronyd stopped, chronyd running, systemd-timesyncd running,
\* systemd-timesyncd enabled but stopped
AuditUnits ==
    { NoUnits,
      [NoUnits EXCEPT !["chronyd"] = [active |-> "active", enabled |-> "enabled"]],
      [NoUnits EXCEPT !["systemd-timesyncd"] = [active |-> "active", enabled |-> "enabled"]],
      [NoUnits EXCEPT !["systemd-timesyncd"] = [active |-> "inactive", enabled |-> "enabled"]] }

InitAudit ==
    /\ loaded \in SUBSET AuditModules
    /\ \E d \in {"insmod", "not_found"} : modprobe = [m \in AllModules |-> d]
    /\ \E t \in TmpMounts : mounts = [DefaultMounts EXCEPT !["/tmp"] = t]
    /\ cond = {}
    /\ probe = NoProbe
    /\ files \in AuditFiles
    /\ unwritable = {}
    /\ busy = {}
    /\ packages \in SUBSET AuditPackages
    /\ units \in AuditUnits
    /\ call = NoCall
    /\ executed = <<>>
    /\ printed = <<>>
    /\ selected = <<>>
    /\ NoAux

\* python3 cis_filesystem_audit.py [--json], python3 cis_services_audit.py [--json]
Main(script, json) ==
    /\ Idle
    /\ \E r \in {main(CallsOf(script), json)} :
          /\ call' = [NoCall EXCEPT !.op = "main", !.target = script,
                                    !.mode = OutputMode(json), !.raised = r.raised]
          /\ executed' = r.executed
          /\ printed' = r.printed
          /\ output' = r.results
    /\ selected' = <<>>
    /\ UNCHANGED <<envvars, previous, registry>>

\* the operation is over; what it ran and emitted is kept together with the
\* machine it ran on
Return ==
    /\ ~Idle
    /\ previous' = [op |-> call.op, target |-> call.target, mode |-> call.mode,
                    passed |-> call.passed, raised |-> call.raised,
                    executed |-> executed, output |-> output, machine |-> envvars]
    /\ call' = NoCall
    /\ executed' = <<>>
    /\ printed' = <<>>
    /\ selected' = <<>>
    /\ output' = NoOutput
    /\ UNCHANGED <<envvars, registry>>

\* between two operations a module is loaded or a package installed
ModuleGetsLoaded(m) ==
    /\ Idle
    /\ m \notin loaded
    /\ loaded' = loaded \cup {m}
    /\ UNCHANGED <<modprobe, mounts, cond, probe, files, unwritable, busy, packages, units,
                   call, executed, printed, selected, auxvars>>

PackageGetsInstalled(pkg) ==
    /\ Idle
    /\ pkg \notin packages
    /\ packages' = packages \cup {pkg}
    /\ UNCHANGED <<loaded, modprobe, mounts, cond, probe, files, unwritable, busy, units,
                   call, executed, printed, selected, auxvars>>

NextAudit ==
    \/ \E script \in AuditScripts, json \in BOOLEAN : Main(script, json)
    \/ \E module \in AuditRunners : RunAllAudits(module)
    \/ Return
    \/ \E m \in AuditModules : ModuleGetsLoaded(m)
    \/ \E pkg \in AuditPackages : PackageGetsInstalled(pkg)

SpecAudit == InitAudit /\ [][NextAudit]_vars

(***************************************************************************)
(* The registries and the audits: claims.                                  *)
(***************************************************************************)

NoDuplicates(s) == \A i, j \in DOMAIN s : s[i] = s[j] => i = j

\* the first element of every entry of a checks list, and the number it
\* starts with
Names(checks) == [i \in DOMAIN checks |-> checks[i].name]

Numbers(names) == [i \in DOMAIN names |-> Split(names[i])[1]]

\* the keys of MODULES and of the submodules dictionaries, in order
GroupNameList == [i \in DOMAIN MODULES |-> MODULES[i].name]

SubmoduleNameList ==
    LET subs == SubmodulesOf(MODULES) IN [i \in DOMAIN subs |-> subs[i].name]

\* the lists that do not depend on the machine hold no identifier twice
RegistriesUnique ==
    /\ NoDuplicates(Names(cis_filesystem_audit_checks))
    /\ NoDuplicates(Numbers(Names(cis_filesystem_audit_checks)))
    /\ NoDuplicates(Names(cis_services_audit_checks))
    /\ NoDuplicates(Numbers(Names(cis_services_audit_checks)))
    /\ NoDuplicates(GroupNameList \o SubmoduleNameList)

\* C17: within each registry every entry's identifier is unique: the names
\* of checks in cis_filesystem_audit and in cis_services_audit and the
\* numbers they start with, the group and submodule names of MODULES, the
\* sections and descriptions of audit_functions in fs_kernel_modules; so the
\* checks a run executed and the entries it emitted carry pairwise distinct
\* identifiers.
C17_IdentifiersUnique ==
    /\ RegistriesUnique
    /\ call.op \in {"main", "run_all_audits"} =>
          /\ NoDuplicates(Descs(executed))
          /\ NoDuplicates([i \in DOMAIN output |-> output[i].check])
    /\ (call.op = "run_all_audits" /\ call.target = "fs_kernel_modules") =>
          /\ Len(executed) = 8
          /\ NoDuplicates(Numbers(Descs(executed)))

\* cis_services_audit.py --json has emitted its seventeen entries after
\* fs_kernel_modules ran its eight checks
C17_Witness ==
    /\ call.op = "main" /\ call.target = "cis_services_audit" /\ call.mode = "json"
    /\ Len(output) = 17
    /\ previous.op = "run_all_audits" /\ previous.target = "fs_kernel_modules"
    /\ Len(previous.executed) = 8

\* the operation that has just run is the one that completed before it, with
\* the same arguments, and the machine is as it was then
SameAuditAgain ==
    /\ call.op \in {"main", "run_all_audits"}
    /\ previous.op = call.op
    /\ previous.target = call.target
    /\ previous.mode = call.mode
    /\ previous.machine = envvars

C19_JsonResults ==
    (call.op = "main" /\ call.mode = "json") =>
        LET checks == ChecksOf(call.target)
            calls  == CallsOf(call.target)
        IN  /\ ~call.raised
            /\ Len(output) = Len(checks)
            /\ \A i \in DOMAIN output :
                  /\ output[i].check = checks[i].name
                  /\ output[i].passed = calls[i].passed
                  /\ output[i].status \in {"PASS", "FAIL"}
                  /\ output[i].status = "PASS" <=> output[i].passed

\* both scripts have emitted their lists, each with entries of both kinds
C19_Witness ==
    /\ call.op = "main" /\ call.target = "cis_services_audit" /\ call.mode = "json"
    /\ Len(output) = 17
    /\ \E i, j \in DOMAIN output : output[i].status = "PASS" /\ output[j].status = "FAIL"
    /\ previous.op = "main" /\ previous.target = "cis_filesystem_audit"
    /\ previous.mode = "json"
    /\ Len(previous.output) = 34
    /\ \E i, j \in DOMAIN previous.output :
          previous.output[i].status = "PASS" /\ previous.output[j].status = "FAIL"

(***************************************************************************)
(* The controller: further claims.                                         *)
(***************************************************************************)

\* C22: MODULES is read-only after construction: after any sequence of
\* filter_modules, run_audits and run_remediations calls the list holds the
\* groups it was built with, in their order, each with its submodule list,
\* and a filter_modules call returns what it returns on the list as built.
C22_RegistryReadOnly ==
    /\ registry = MODULES
    /\ call.op = "filter_modules" =>
          selected = (IF call.target = "all" THEN MODULES
                      ELSE filter_groups(MODULES, call.target))

\* filter_modules('updates') handed out a package_management group with one
\* submodule while the group in the list keeps its two
C22_Witness ==
    /\ call.op = "filter_modules" /\ call.target = "updates"
    /\ Len(selected) = 1 /\ selected[1].name = registry[3].name
    /\ Len(selected[1].submodules) = 1
    /\ Len(registry[3].submodules) = 2

\* C23: run_user_friendly_audit runs the eight kernel-module checks of
\* section 1.1.1, reports one result per module and returns whether all of
\* them passed, without raising.
C23_UserFriendlyAudit ==
    call.op = "run_user_friendly_audit" =>
        /\ ~call.raised
        /\ Len(executed) = 8
        /\ call.passed = all_passed(executed)

(***************************************************************************)
(* A kernel-module check, one probe per step, on a machine that others     *)
(* change while the check runs.  call.mode is the probe the check is about *)
(* to issue; `output` is the trace of the probes' answers and of the       *)
(* changes made to the machine since the check began.                      *)
(***************************************************************************)

RaceModules == {"cramfs", "udf"}

CheckImplementations == {"fs_kernel_modules", "fs_modules"}

CheckOp(impl) == impl \o ".check_module"

CheckOps == {CheckOp(impl) : impl \in CheckImplementations}

Event(k, w, m, a) == [kind |-> k, what |-> w, target |-> m, answer |-> a]

\* an _is_module_loaded that never sees a module
is_module_loaded_blind(impl, m) == FALSE

\* the probes of a check on the machine as it is now
is_module_loaded(impl, m) ==
    IF impl = "fs_kernel_modules" THEN fs_kernel_modules_is_module_loaded(m)
    ELSE fs_modules_is_module_loaded(m)

is_module_disabled(impl, m) ==
    IF impl = "fs_kernel_modules" THEN fs_kernel_modules_is_module_disabled(m)
    ELSE fs_modules_is_module_disabled(m)

is_module_available(impl, m) ==
    IF impl = "fs_kernel_modules" THEN fs_kernel_modules_is_module_available(m)
    ELSE fs_modules_is_module_available(m)

\* the check's second condition evaluates left to right and stops early:
\* fs_kernel_modules asks `not disabled and available`, fs_modules asks
\* `not available or disabled`
FirstModprobe(impl) == IF impl = "fs_kernel_modules" THEN "disabled" ELSE "available"

InitRace ==
    /\ loaded = {}
    /\ \E d \in {"insmod", "not_found"} : modprobe = [m \in AllModules |-> d]
    /\ mounts = DefaultMounts
    /\ cond = {}
    /\ probe = NoProbe
    /\ call = NoCall
    /\ executed = <<>>
    /\ printed = <<>>
    /\ selected = <<>>
    /\ DefaultMachine
    /\ NoAux

Checking(impl, step) == call.op = CheckOp(impl) /\ call.mode = step

\* the check function is entered
StartCheck(impl, m) ==
    /\ Idle
    /\ call' = [NoCall EXCEPT !.op = CheckOp(impl), !.target = m, !.mode = "lsmod"]
    /\ output' = NoOutput
    /\ UNCHANGED <<envvars, previous, registry, executed, printed, selected>>

\* if _is_module_loaded(module_name): return False
ProbeLoaded(impl) ==
    /\ Checking(impl, "lsmod")
    /\ LET a == is_module_loaded(impl, call.target)
       IN  /\ output' = Append(output, Event("probe", "lsmod", call.target, a))
           /\ call' = IF a THEN [call EXCEPT !.mode = "returned", !.passed = FALSE]
                      ELSE [call EXCEPT !.mode = FirstModprobe(impl)]
    /\ UNCHANGED <<envvars, previous, registry, executed, printed, selected>>

\* the _is_module_disabled probe: in fs_kernel_modules the first of the two
\* (disabled: pass), in fs_modules the second (its answer is the verdict)
ProbeDisabled(impl) ==
    /\ Checking(impl, "disabled")
    /\ LET a == is_module_disabled(impl, call.target)
       IN  /\ output' = Append(output, Event("probe", "modprobe disabled", call.target, a))
           /\ call' = IF impl = "fs_kernel_modules"
                      THEN IF a THEN [call EXCEPT !.mode = "returned", !.passed = TRUE]
                           ELSE [call EXCEPT !.mode = "available"]
                      ELSE [call EXCEPT !.mode = "returned", !.passed = a]
    /\ UNCHANGED <<envvars, previous, registry, executed, printed, selected>>

\* the _is_module_available probe: in fs_modules the first of the two (not
\* available: pass), in fs_kernel_modules the second (available: fail)
ProbeAvailable(impl) ==
    /\ Checking(impl, "available")
    /\ LET a == is_module_available(impl, call.target)
       IN  /\ output' = Append(output, Event("probe", "modprobe available", call.target, a))
           /\ call' = IF impl = "fs_modules"
                      THEN IF ~a THEN [call EXCEPT !.mode = "returned", !.passed = TRUE]
                           ELSE [call EXCEPT !.mode = "disabled"]
                      ELSE [call EXCEPT !.mode = "returned", !.passed = ~a]
    /\ UNCHANGED <<envvars, previous, registry, executed, printed, selected>>

\* a state with call.mode = "returned" is the moment the check returns: the
\* machine changes before it or after the caller took the result
AtReturn == call.op \in CheckOps /\ call.mode = "returned"

\* the caller takes the result
CheckReturns ==
    /\ AtReturn
    /\ call' = NoCall
    /\ output' = NoOutput
    /\ UNCHANGED <<envvars, previous, registry, executed, printed, selected>>

Traced(e) == IF call.op \in CheckOps THEN Append(output, e) ELSE output

\* somebody else inserts a module (insmod with the path of the module file
\* does not ask modprobe's configuration)
EnvironmentLoads(m) ==
    /\ ~AtReturn
    /\ m \notin loaded
    /\ loaded' = loaded \cup {m}
    /\ output' = Traced(Event("environment", "insmod", m, TRUE))
    /\ UNCHANGED <<modprobe, mounts, cond, probe, files, unwritable, busy, packages, units,
                   call, executed, printed, selected, previous, registry>>

\* somebody else writes the module's configuration file
EnvironmentDisables(m) ==
    /\ ~AtReturn
    /\ ConfFile(m) \notin DOMAIN files
    /\ files' = open_write(files, ConfFile(m), fs_kernel_modules_create_remediation_file(m)).files
    /\ output' = Traced(Event("environment", "conf", m, TRUE))
    /\ UNCHANGED <<loaded, modprobe, mounts, cond, probe, unwritable, busy, packages, units,
                   call, executed, printed, selected, previous, registry>>

NextRace ==
    \/ \E impl \in CheckImplementations, m \in RaceModules : StartCheck(impl, m)
    \/ \E impl \in CheckImplementations : ProbeLoaded(impl)
    \/ \E impl \in CheckImplementations : ProbeDisabled(impl)
    \/ \E impl \in CheckImplementations : ProbeAvailable(impl)
    \/ CheckReturns
    \/ \E m \in RaceModules : EnvironmentLoads(m)
    \/ \E m \in RaceModules : EnvironmentDisables(m)

SpecRace == InitRace /\ [][NextRace]_vars

\* C24: a kernel-module check reads the loaded state and the disabled or
\* available state in separate probes.  A check that returns passed = True
\* found the module not loaded at its lsmod probe, and nothing more: the
\* module is loaded at the moment the check returns in exactly the
\* executions where the environment inserted it after that probe (the
\* witness is such an execution).
C24_PassedMeansNotLoadedAtProbe ==
    (AtReturn /\ call.passed) =>
        \E i \in DOMAIN output :
            /\ output[i] = Event("probe", "lsmod", call.target, FALSE)
            /\ call.target \in loaded <=>
                  \E j \in (i + 1)..Len(output) :
                      output[j] = Event("environment", "insmod", call.target, TRUE)

\* the check returned passed = True and the module is loaded
C24_Witness ==
    /\ AtReturn /\ call.passed
    /\ call.target \in loaded

(***************************************************************************)
(* The kernel-module checks: further claims.                               *)
(***************************************************************************)

\* C25: the module-loaded test is exact: for the module m of a check, each
\* of the three tests (_is_module_loaded of fs_modules and of
\* fs_kernel_modules, check_kernel_module_not_loaded of cis_filesystem_audit)
\* reports m loaded if and only if a module named exactly m is in the
\* loaded-module table.
C25_LoadedTestExact ==
    call.op \in {"fs_modules.check", "fs_kernel_modules.check"} =>
        /\ is_module_loaded("fs_modules", call.target) <=> ModuleLoaded(call.target)
        /\ is_module_loaded("fs_kernel_modules", call.target) <=> ModuleLoaded(call.target)
        /\ cis_filesystem_audit_check_kernel_module_not_loaded(call.target).passed
              <=> ~ModuleLoaded(call.target)

(***************************************************************************)
(* The service checks: further claims.                                     *)
(***************************************************************************)

\* what is true of the machine, independently of any script
UnitActive(u) == units[u].active = "active"

UnitEnabled(u) == units[u].enabled = "enabled"

\* C26: check_time_synchronization returns passed = True if and only if
\* chronyd is active, enabled and has its configuration file, or
\* systemd-timesyncd is active and enabled; a service that systemctl
\* is-active reports 'inactive' does not count as active.
C26_TimeSynchronization ==
    (call.op = "main" /\ call.target = "cis_services_audit") =>
        (executed[17].passed <=>
            \/ /\ UnitActive("chronyd") /\ UnitEnabled("chronyd")
               /\ "/etc/chrony/chrony.conf" \in DOMAIN files
            \/ UnitActive("systemd-timesyncd") /\ UnitEnabled("systemd-timesyncd"))

(***************************************************************************)
(* The controller's remediation loop.                                      *)
(***************************************************************************)

\* the runners whose run_all_remediations was called, in call order
Runners(invoked) == [i \in DOMAIN invoked |-> invoked[i].runner]

\* the submodules of the registry that a known target selects, in the
\* order the registry lists them
SelectedInRegistryOrder(t) ==
    LET listed ==
            [i \in DOMAIN MODULES |->
                SelectSeq([j \in DOMAIN MODULES[i].submodules |-> MODULES[i].submodules[j].name],
                          LAMBDA s : t = "all" \/ t = MODULES[i].name \/ t = s)]
        RECURSIVE Flat(_)
        Flat(i) == IF i > Len(MODULES) THEN <<>> ELSE listed[i] \o Flat(i + 1)
    IN  Flat(1)

\* C27: for every known target run_remediations calls run_all_remediations
\* of every selected submodule exactly once, in registry order, and returns
\* True whatever those calls returned.
C27_RemediationsRunOnceAndReturnTrue ==
    (call.op = "run_remediations" /\ Known(call.target)) =>
        /\ ~call.raised
        /\ call.passed
        /\ Runners(output) = SelectedInRegistryOrder(call.target)
        /\ NoDuplicates(Runners(output))

\* C27 witness: run_remediations has run the whole registry, the partition
\* runner returned False and the kernel runner's verification audit failed.
C27_Witness ==
    /\ call.op = "run_remediations" /\ call.target = "all"
    /\ call.passed
    /\ Len(output) = Len(SubmoduleNameList)
    /\ \E i \in DOMAIN output : output[i].runner = "partitions" /\ ~output[i].returned
    /\ \E i \in DOMAIN output : output[i].runner = "fs_modules" /\ ~output[i].returned

(***************************************************************************)
(* The kernel-module remediations: further claims.                         *)
(***************************************************************************)

\* the step is remediate_<m> of fs_kernel_modules.py for a single module
SingleModuleRemediationStep ==
    /\ Remediating("fs_kernel_modules")
    /\ Len(executed') = Len(executed) + 1
    /\ Len(executed') <= 7

\* C28: a single-module remediation of fs_kernel_modules issues rmmod only
\* when the module was observed loaded, does not write the module's
\* configuration file after a failed rmmod, and returns True if and only if
\* the module was not loaded or rmmod succeeded, and the write of the
\* configuration file succeeded.
C28_SingleModuleRemediation ==
    [][SingleModuleRemediationStep =>
          LET m == fs_kernel_modules_remediation_functions[Len(executed')][2]
              issued == SubSeq(output', Len(output) + 1, Len(output'))
              observed == \E l \in loaded : Contains(LsmodLine(l), m)
              rmmods == SelectSeq(issued, LAMBDA e : e.kind = "rmmod")
              writes == SelectSeq(issued, LAMBDA e : e.kind = "write")
          IN  /\ Len(rmmods) <= 1 /\ Len(writes) <= 1
              /\ \A i \in DOMAIN rmmods : rmmods[i].target = m
              /\ \A i \in DOMAIN writes : writes[i].target = ConfFile(m)
              /\ rmmods # <<>> => observed
              /\ (rmmods # <<>> /\ ~rmmods[1].ok) => writes = <<>> /\ files' = files
              /\ executed'[Len(executed')].passed <=>
                     /\ ~observed \/ (rmmods # <<>> /\ rmmods[1].ok)
                     /\ writes # <<>> /\ writes[1].ok
    ]_vars

\* C28 witness: remediate_cramfs found cramfs loaded and in use, rmmod
\* failed, the remediation returned False and the file was not written.
C28_Witness ==
    /\ Remediating("fs_kernel_modules")
    /\ Len(executed) = 1
    /\ ~executed[1].passed
    /\ output = <<Effect("rmmod", "cramfs", FALSE)>>
    /\ ConfFile("cramfs") \notin DOMAIN files
    /\ ConfFile("cramfs") \notin unwritable

(***************************************************************************)
(* The controller's capture of a section's output.                         *)
(***************************************************************************)

\* the stream sys.stdout is bound to after the assignments made so far
SysStdout(assigned) ==
    IF assigned = <<>> THEN OriginalStdout ELSE assigned[Len(assigned)]

\* C29: run_audits in user-friendly mode redirects sys.stdout only while a
\* section's checks run: on every exit from a section, by return or by an
\* exception of a check, sys.stdout is the stream installed before the call.
C29_StdoutRestored ==
    (call.op = "run_audits" /\ call.mode = "user_friendly") =>
        SysStdout(output) = OriginalStdout

(***************************************************************************)
(* The two implementations of section 1.1.1 compared.                      *)
(***************************************************************************)

\* what the other implementation returns for the same check on the same
\* machine
OtherImplementation ==
    CASE call.op = "fs_modules.check" -> fs_kernel_modules_check_module(call.target)
      [] call.op = "fs_kernel_modules.check" -> fs_modules_check_module(call.target)
      [] call.op = "fs_modules.check_fat" -> fs_kernel_modules_check_fat
      [] call.op = "fs_kernel_modules.check_fat" -> fs_modules_check_fat
      [] OTHER -> call.passed

\* C30: for every check 1.1.1.1 to 1.1.1.8 and every combination of probe
\* results, fs_kernel_modules.check_<m> and
\* modules/kernel/fs_modules.check_<m> return the same passed value.
C30_ImplementationsAgree ==
    call.op \in {"fs_modules.check", "fs_kernel_modules.check",
                 "fs_modules.check_fat", "fs_kernel_modules.check_fat"} =>
        call.passed = OtherImplementation

=============================================================================
